---- MODULE Spec2Model ----
(***************************************************************************)
(* Model of the Win32 emulation of mutex, condition variable,              *)
(* reader-writer lock, semaphore and thread lifecycle in                   *)
(* qemu-thread-win32.c.                                                    *)
(*                                                                         *)
(* Every thread has a program counter pc[t] naming the next statement it   *)
(* executes and a return label retpc[t] for the one level of nesting the   *)
(* code has (qemu_cond_wait calls qemu_mutex_unlock and qemu_mutex_lock).  *)
(* One action = one access to shared memory or one OS call.                *)
(***************************************************************************)
EXTENDS Integers, FiniteSets, Sequences, TLC

\* ---------------------------------------------------------------- bounds
MutexThreads == 3
MisuseThreads == 2     \* threads calling every entry point of QemuMutex
MaxCount == 3          \* mutex->count at which a holder stops calling lock again
CondThreads == 4
MaxLockDepth == 2      \* nesting of mutex->lock at a call of lock_recursive
MaxCondCalls == 7      \* calls of wait, signal and broadcast in one behaviour
MaxCallsAfterRace == 1 \* such calls made from BroadcastAfterLeftUnit on
RWThreads == 3
MaxStaleCount == 1     \* |readerCount| found in uninitialised storage
MaxThreads == 2        \* threads created through qemu_thread_create
MaxRetVal == 1         \* entry functions return a pointer in 0..MaxRetVal
SemThreads == 2        \* threads using the semaphore
MaxPosts == 3          \* qemu_sem_post calls in one behaviour
MaxTakes == 3          \* waits that consume a unit in one behaviour

\* ------------------------------------------------------------- constants
NoThread == 0          \* owner value 0: "no owner"
OtherTid == -1         \* a thread id that is none of the modelled threads
NullRet == 0           \* the null pointer, as a thread's return value
NoRet == -1            \* qemu_thread_join has not returned yet
LONG_MAX == 2147483647 \* maximum count given to CreateSemaphore
SemSuccess == 0        \* qemu_sem_timedwait: "return 0"
SemTimeout == -1       \* qemu_sem_timedwait: "return -1"

VARIABLES
    pc,          \* pc[t]: position of thread t
    retpc,       \* retpc[t]: where the mutex function t is in returns to
    tmp,         \* tmp[t]: value loaded by the non-atomic cond->waiters++
    aborted,     \* a failed assert() or error_exit() has ended the process
    destroyed,   \* the condition variable or semaphore in use has been destroyed
    count,       \* QemuMutex.count
    owner,       \* QemuMutex.owner
    sema,        \* units held by QemuMutex.sema (the wake-channel)
    semaH,       \* QemuMutex.sema != NULL (the semaphore has been created)
    semaClosed,  \* qemu_mutex_destroy has closed the handle in QemuMutex.sema
    acquired,    \* history: threads whose increment returned 1, whose CAS
                 \* succeeded or that consumed a wake unit, up to their decrement
    lock,        \* owner of the critical section QemuMutex.lock
    lockDepth,   \* recursion count of the critical section QemuMutex.lock
    waiters,     \* QemuCond.waiters
    target,      \* QemuCond.target
    csema,       \* units held by QemuCond.sema (the wake-channel)
    cevent,      \* QemuCond.continue_event is signaled (auto-reset event)
    snap,        \* history: waiters registered when the running signal/broadcast began
    woke,        \* history: threads that consumed a unit of cond->sema since then
    calls,       \* history: calls of wait, signal and broadcast so far
    readerCount,     \* QemuRWMutex.readerCount
    writer,          \* QemuRWMutex.writer
    readerCountLock, \* owner of the critical section readerCountLock
    writerLock,      \* owner of the critical section writerLock
    noReaders,       \* the manual-reset event noReaders is signaled
    cpc,         \* cpc[d]: position of qemu_thread_create for descriptor d
    tpc,         \* tpc[d]: position of the thread created with descriptor d
    jpc,         \* jpc[d]: position of the qemu_thread_join of descriptor d
    mode,        \* QemuThreadData.mode
    heap,        \* allocation state of the QemuThreadData
    exited,      \* QemuThreadData.exited
    dret,        \* QemuThreadData.ret
    dcs,         \* owner of QemuThreadData.cs
    hdata,       \* QemuThread.data of the creator's handle (TRUE: the descriptor)
    self,        \* QemuThread.data of the copy made by qemu_thread_get_self
    tls,         \* the thread's TLS slot holds the descriptor
    tid,         \* QemuThread.tid, the OS thread id given at creation
    val,         \* the value the thread's entry function returned
    jhandle,     \* the thread object join's handle refers to (0: no handle)
    jret,        \* the value qemu_thread_join returned
    frees,       \* history: who called g_free on the descriptor, in order
    uaf,         \* history: a descriptor was read or written after g_free
    semCount,    \* units held by QemuSemaphore.sema
    semInit,     \* the init argument of qemu_sem_init
    posts,       \* history: completed qemu_sem_post calls
    takes,       \* history: completed waits that consumed a unit
    waitRc,      \* waitRc[t]: what WaitForSingleObject returned to t
    semRet,      \* semRet[t]: what qemu_sem_timedwait returned to t
    postsAtCall  \* history: posts so far when t called wait on count 0, else -1

mutexVars == <<count, owner, sema, semaH, semaClosed, acquired>>
\* QemuMutex.lock, which only qemu_mutex_lock_recursive uses
lockVars == <<lock, lockDepth>>
condVars == <<waiters, target, csema, cevent, snap, woke>>
rwVars == <<readerCount, writer, readerCountLock, writerLock, noReaders>>
threadVars == <<pc, retpc, tmp, aborted>>

lifeVars == <<cpc, tpc, jpc, mode, heap, exited, dret, dcs, hdata, self, tls,
             tid, val, jhandle, jret, frees, uaf>>

semVars == <<semCount, semInit, posts, takes, waitRc, semRet, postsAtCall>>

\* what the mutex and condition-variable code never touches
otherVars == <<rwVars, lifeVars, semVars>>
\* what lock, trylock, unlock and the statements of the condition variable
\* never touch
notSyncVars == <<otherVars, lockVars, calls, destroyed>>
\* what the reader-writer lock code never touches
notRWVars == <<retpc, tmp, destroyed, mutexVars, lockVars, condVars, calls, lifeVars, semVars>>
\* what the thread lifecycle code never touches
notLifeVars == <<pc, retpc, tmp, destroyed, mutexVars, lockVars, condVars, calls, rwVars, semVars>>
\* what the semaphore code never touches
notSemVars == <<retpc, tmp, destroyed, mutexVars, lockVars, condVars, calls, rwVars, lifeVars>>

vars == <<pc, retpc, tmp, aborted, destroyed, count, owner, sema, semaH,
          semaClosed, acquired, lock, lockDepth,
          waiters, target, csema, cevent, snap, woke, calls,
          readerCount, writer, readerCountLock, writerLock, noReaders,
          cpc, tpc, jpc, mode, heap, exited, dret, dcs, hdata, self, tls,
          tid, val, jhandle, jret, frees, uaf,
          semCount, semInit, posts, takes, waitRc, semRet, postsAtCall>>

Threads == DOMAIN pc

\* Scenarios that create no semaphore through qemu_sem_init.
NoSemaphore ==
    /\ semCount = 0 /\ semInit = 0 /\ posts = 0 /\ takes = 0
    /\ waitRc = <<>> /\ semRet = <<>> /\ postsAtCall = <<>>

\* Scenarios that create no reader-writer lock leave its variables alone.
NoRWMutex ==
    /\ readerCount = 0
    /\ writer = NoThread
    /\ readerCountLock = NoThread
    /\ writerLock = NoThread
    /\ noReaders = FALSE

\* Scenarios that create no thread through qemu_thread_create.
NoQemuThreads ==
    /\ cpc = <<>> /\ tpc = <<>> /\ jpc = <<>> /\ mode = <<>> /\ heap = <<>>
    /\ exited = <<>> /\ dret = <<>> /\ dcs = <<>> /\ hdata = <<>>
    /\ self = <<>> /\ tls = <<>> /\ tid = <<>> /\ val = <<>>
    /\ jhandle = <<>> /\ jret = <<>> /\ frees = <<>> /\ uaf = FALSE

\* Scenarios that create no mutex and no condition variable.
NoMutexNoCond ==
    /\ count = 0 /\ owner = NoThread /\ sema = 0 /\ semaH = FALSE
    /\ semaClosed = FALSE /\ acquired = {}
    /\ lock = NoThread /\ lockDepth = 0 /\ calls = 0
    /\ waiters = 0 /\ target = 0 /\ csema = 0 /\ cevent = FALSE
    /\ snap = {} /\ woke = {}

\* Values the owner field can hold.  qemu_mutex_init leaves it unwritten.
OwnerValues(T) == {NoThread, OtherTid} \cup T

\* thread t is about to execute statement l and the process is alive
At(t, l) == ~aborted /\ pc[t] = l

\* thread t is between two calls and makes the next one.  The scenarios of
\* the condition variable and of the semaphore destroy their object only
\* while every thread is between two calls, and no thread makes a call
\* after that.
Idle(t) == At(t, "idle") /\ ~destroyed

Goto(t, l) == pc' = [pc EXCEPT ![t] = l]

\* return from qemu_mutex_lock / qemu_mutex_unlock to the caller
Return(t) == /\ pc' = [pc EXCEPT ![t] = retpc[t]]
             /\ retpc' = [retpc EXCEPT ![t] = "none"]

Call(t, entry, ret) == /\ pc' = [pc EXCEPT ![t] = entry]
                       /\ retpc' = [retpc EXCEPT ![t] = ret]

\* assert() failure or error_exit(): abort() ends the process
Abort(t) == /\ aborted' = TRUE
            /\ Goto(t, "abort")

\* ------------------------------------------------------- qemu_mutex_init
MutexInit(T) ==
    /\ count = 0
    /\ semaH = FALSE
    /\ sema = 0
    /\ semaClosed = FALSE
    /\ acquired = {}
    /\ owner \in OwnerValues(T)

\* -------------------------------------------------- qemu_mutex_semaphore
\* Creates the semaphore on first use; every caller gets the same handle
\* (after qemu_mutex_destroy the handle that it closed: the field is not
\* reset).
MutexSemaphore == semaH' = TRUE

\* ------------------------------------------------------- qemu_mutex_lock
\* a lock that does not check the owner field
LockAssertSkip(t) ==
    /\ At(t, "l_assert")
    /\ Goto(t, "l_inc")
    /\ UNCHANGED <<notSyncVars, retpc, tmp, aborted, mutexVars, condVars>>

LockAssert(t) ==
    /\ At(t, "l_assert")
    /\ IF owner # t
         THEN Goto(t, "l_inc") /\ UNCHANGED aborted
         ELSE Abort(t)
    /\ UNCHANGED <<notSyncVars, retpc, tmp, mutexVars, condVars>>

LockInc(t) ==
    /\ At(t, "l_inc")
    /\ count' = count + 1
    /\ IF count' # 1
         THEN Goto(t, "l_sema") /\ UNCHANGED acquired
         ELSE Goto(t, "l_own") /\ acquired' = acquired \cup {t}
    /\ UNCHANGED <<notSyncVars, retpc, tmp, aborted, owner, sema, semaH, semaClosed, condVars>>

LockSema(t) ==
    /\ At(t, "l_sema")
    /\ MutexSemaphore
    /\ Goto(t, "l_wait")
    /\ UNCHANGED <<notSyncVars, retpc, tmp, aborted, count, owner, sema, semaClosed, acquired, condVars>>

\* WaitForSingleObject(..., INFINITE), its result is not looked at: it
\* returns with a wake unit, or at once and without one when the handle is
\* closed (a wait that was pending when the handle was closed may return or
\* stay blocked)
LockWait(t) ==
    /\ At(t, "l_wait")
    /\ IF semaClosed
         THEN UNCHANGED <<sema, acquired>>
         ELSE /\ sema > 0
              /\ sema' = sema - 1
              /\ acquired' = acquired \cup {t}
    /\ Goto(t, "l_own")
    /\ UNCHANGED <<notSyncVars, retpc, tmp, aborted, count, owner, semaH, semaClosed, condVars>>

\* a lock that returns without recording the caller as owner
LockOwnSkip(t) ==
    /\ At(t, "l_own")
    /\ Return(t)
    /\ UNCHANGED <<notSyncVars, tmp, aborted, mutexVars, condVars>>

LockOwn(t) ==
    /\ At(t, "l_own")
    /\ owner' = t
    /\ Return(t)
    /\ UNCHANGED <<notSyncVars, tmp, aborted, count, sema, semaH, semaClosed, acquired, condVars>>

\* --------------------------------------------- qemu_mutex_lock_recursive
\* EnterCriticalSection(&mutex->lock).  qemu_mutex_init never initialises
\* this critical section: where the storage reads as a free critical
\* section the caller enters (once more, if it is inside already), where
\* it reads as owned by some other thread the caller blocks for good.
RecEnter(t) ==
    /\ At(t, "r_enter")
    /\ lock \in {NoThread, t}
    /\ lock' = t
    /\ lockDepth' = lockDepth + 1
    /\ Goto(t, "r_test")
    /\ UNCHANGED <<otherVars, calls, destroyed, retpc, tmp, aborted, mutexVars, condVars>>

\* if (mutex->owner != 0)
RecTest(t) ==
    /\ At(t, "r_test")
    /\ IF owner # NoThread THEN Goto(t, "r_leave") ELSE Goto(t, "r_own")
    /\ UNCHANGED <<notSyncVars, retpc, tmp, aborted, mutexVars, condVars>>

\* LeaveCriticalSection(&mutex->lock); return 1: the caller is where it was
RecLeave(t) ==
    /\ At(t, "r_leave")
    /\ lockDepth' = lockDepth - 1
    /\ lock' = IF lockDepth' = 0 THEN NoThread ELSE t
    /\ Return(t)
    /\ UNCHANGED <<otherVars, calls, destroyed, tmp, aborted, mutexVars, condVars>>

\* mutex->owner = GetCurrentThreadId(); return 0: the caller has the mutex
\* and stays inside mutex->lock; mutex->count is not touched
RecOwn(t) ==
    /\ At(t, "r_own")
    /\ owner' = t
    /\ Goto(t, "held")
    /\ retpc' = [retpc EXCEPT ![t] = "none"]
    /\ UNCHANGED <<notSyncVars, tmp, aborted, count, sema, semaH, semaClosed, acquired, condVars>>

LockRecursiveStep(t) == RecEnter(t) \/ RecTest(t) \/ RecLeave(t) \/ RecOwn(t)

\* ---------------------------------------------------- qemu_mutex_destroy
\* assert(mutex->count == 0)
DestroyAssertCount(t) ==
    /\ At(t, "d_count")
    /\ IF count = 0
         THEN Goto(t, "d_owner") /\ UNCHANGED aborted
         ELSE Abort(t)
    /\ UNCHANGED <<notSyncVars, retpc, tmp, mutexVars, condVars>>

\* assert(mutex->owner == 0)
DestroyAssertOwner(t) ==
    /\ At(t, "d_owner")
    /\ IF owner = NoThread
         THEN Goto(t, "d_close") /\ UNCHANGED aborted
         ELSE Abort(t)
    /\ UNCHANGED <<notSyncVars, retpc, tmp, mutexVars, condVars>>

\* if (mutex->sema) CloseHandle(mutex->sema); the field keeps the handle,
\* the other threads go on and the mutex can be called again
DestroyClose(t) ==
    /\ At(t, "d_close")
    /\ semaClosed' = (semaClosed \/ semaH)
    /\ Goto(t, "idle")
    /\ UNCHANGED <<notSyncVars, retpc, tmp, aborted, count, owner, sema, semaH, acquired, condVars>>

MutexDestroyStep(t) ==
    DestroyAssertCount(t) \/ DestroyAssertOwner(t) \/ DestroyClose(t)

\* ---------------------------------------------------- qemu_mutex_trylock
TrylockAssert(t) ==
    /\ At(t, "t_assert")
    /\ IF owner # t
         THEN Goto(t, "t_cas") /\ UNCHANGED aborted
         ELSE Abort(t)
    /\ UNCHANGED <<notSyncVars, retpc, tmp, mutexVars, condVars>>

\* a trylock that decides on the owner field instead of the counter
TrylockCasOwnerTest(t) ==
    /\ At(t, "t_cas")
    /\ IF owner = NoThread
         THEN count' = 1 /\ Goto(t, "t_own") /\ acquired' = acquired \cup {t}
         ELSE count' = count /\ Goto(t, "t_busy") /\ UNCHANGED acquired
    /\ UNCHANGED <<notSyncVars, retpc, tmp, aborted, owner, sema, semaH, semaClosed, condVars>>

\* InterlockedCompareExchange(&count, 1, 0) == 0; "t_busy" is "returned true"
TrylockCas(t) ==
    /\ At(t, "t_cas")
    /\ IF count = 0
         THEN count' = 1 /\ Goto(t, "t_own") /\ acquired' = acquired \cup {t}
         ELSE count' = count /\ Goto(t, "t_busy") /\ UNCHANGED acquired
    /\ UNCHANGED <<notSyncVars, retpc, tmp, aborted, owner, sema, semaH, semaClosed, condVars>>

\* mutex->owner = GetCurrentThreadId(); return false
TrylockOwn(t) ==
    /\ At(t, "t_own")
    /\ owner' = t
    /\ Call(t, "held", "none")
    /\ UNCHANGED <<notSyncVars, tmp, aborted, count, sema, semaH, semaClosed, acquired, condVars>>

\* ----------------------------------------------------- qemu_mutex_unlock
UnlockAssert(t) ==
    /\ At(t, "u_assert")
    /\ IF owner = t
         THEN Goto(t, "u_clear") /\ UNCHANGED aborted
         ELSE Abort(t)
    /\ UNCHANGED <<notSyncVars, retpc, tmp, mutexVars, condVars>>

UnlockClear(t) ==
    /\ At(t, "u_clear")
    /\ owner' = NoThread
    /\ Goto(t, "u_dec")
    /\ UNCHANGED <<notSyncVars, retpc, tmp, aborted, count, sema, semaH, semaClosed, acquired, condVars>>

\* an unlock that goes on to release a wake unit whatever the counter is
UnlockDecAlwaysRelease(t) ==
    /\ At(t, "u_dec")
    /\ count' = count - 1
    /\ acquired' = acquired \ {t}
    /\ Goto(t, "u_sema")
    /\ UNCHANGED <<notSyncVars, retpc, tmp, aborted, owner, sema, semaH, semaClosed, condVars>>

\* if (InterlockedDecrement(&mutex->count) != 0)
UnlockDec(t) ==
    /\ At(t, "u_dec")
    /\ count' = count - 1
    /\ acquired' = acquired \ {t}
    /\ IF count' # 0
         THEN Goto(t, "u_sema") /\ UNCHANGED retpc
         ELSE Return(t)
    /\ UNCHANGED <<notSyncVars, tmp, aborted, owner, sema, semaH, semaClosed, condVars>>

\* an unlock that returns without releasing the wake unit
UnlockReleaseSkip(t) ==
    /\ At(t, "u_rel")
    /\ Return(t)
    /\ UNCHANGED <<notSyncVars, tmp, aborted, mutexVars, condVars>>

\* qemu_mutex_semaphore(mutex), the argument of ReleaseSemaphore
UnlockSema(t) ==
    /\ At(t, "u_sema")
    /\ MutexSemaphore
    /\ Goto(t, "u_rel")
    /\ UNCHANGED <<notSyncVars, retpc, tmp, aborted, count, owner, sema, semaClosed, acquired, condVars>>

\* ReleaseSemaphore(..., 1, NULL), its result is not looked at: on a handle
\* closed in the meantime it fails and releases nothing
UnlockRelease(t) ==
    /\ At(t, "u_rel")
    /\ sema' = IF semaClosed THEN sema ELSE sema + 1
    /\ Return(t)
    /\ UNCHANGED <<notSyncVars, tmp, aborted, count, owner, semaH, semaClosed, acquired, condVars>>

\* ------------------------------------------------- callers of the mutex
\* A thread that does not hold the mutex calls lock or trylock; a thread
\* that got true from trylock goes on; a holder calls unlock.
CallLock(t) ==
    /\ Idle(t)
    /\ Call(t, "l_assert", "held")
    /\ UNCHANGED <<notSyncVars, tmp, aborted, mutexVars, condVars>>

CallTrylock(t) ==
    /\ Idle(t)
    /\ Call(t, "t_assert", "idle")
    /\ UNCHANGED <<notSyncVars, tmp, aborted, mutexVars, condVars>>

\* return true: the caller is where it was
TrylockBusy(t) ==
    /\ At(t, "t_busy")
    /\ Return(t)
    /\ UNCHANGED <<notSyncVars, tmp, aborted, mutexVars, condVars>>

CallUnlock(t) ==
    /\ At(t, "held")
    /\ Call(t, "u_assert", "idle")
    /\ UNCHANGED <<notSyncVars, tmp, aborted, mutexVars, condVars>>

MutexStep(t) ==
    \/ LockAssert(t) \/ LockInc(t) \/ LockSema(t) \/ LockWait(t) \/ LockOwn(t)
    \/ TrylockAssert(t) \/ TrylockCas(t) \/ TrylockOwn(t)
    \/ UnlockAssert(t) \/ UnlockClear(t) \/ UnlockDec(t) \/ UnlockSema(t) \/ UnlockRelease(t)

\* -------------------------------------------------------- qemu_cond_init
CondInit ==
    /\ waiters = 0
    /\ target = 0
    /\ csema = 0
    /\ cevent = FALSE
    /\ snap = {}
    /\ woke = {}
    /\ calls = 0

\* Scenarios that never call qemu_mutex_lock_recursive leave
\* QemuMutex.lock alone.
NoLockRecursive == lock = NoThread /\ lockDepth = 0

ThreadsInit(T) ==
    /\ pc = [t \in T |-> "idle"]
    /\ retpc = [t \in T |-> "none"]
    /\ tmp = [t \in T |-> 0]
    /\ aborted = FALSE
    /\ destroyed = FALSE

\* ------------------------------------------- the mutex alone, N threads
InitMutex ==
    /\ ThreadsInit(1..MutexThreads)
    /\ MutexInit(1..MutexThreads)
    /\ NoLockRecursive
    /\ CondInit
    /\ NoRWMutex
    /\ NoQemuThreads
    /\ NoSemaphore

NextMutex ==
    \E t \in 1..MutexThreads :
          \/ CallLock(t) \/ CallTrylock(t) \/ TrylockBusy(t) \/ CallUnlock(t)
          \/ MutexStep(t)

SpecMutex == InitMutex /\ [][NextMutex]_vars


\* The same with the mutex in zero-filled storage (owner reads 0 after init).
InitMutexZeroed == InitMutex /\ owner = NoThread

SpecMutexZeroed == InitMutexZeroed /\ [][NextMutex]_vars

\* ------------------------------------------------------ who holds what
\* Thread t has acquired the mutex (its increment returned 1, its CAS
\* succeeded or it consumed a wake unit) and has not yet decremented the
\* counter in unlock.
Holds(t) == t \in acquired

\* Thread t has incremented the counter in lock() but not yet acquired.
Pending(t) == pc[t] \in {"l_sema", "l_wait"}

\* Thread t is in unlock() after its decrement, about to release a unit.
Releasing(t) == pc[t] \in {"u_sema", "u_rel"}

MutualExclusion == \A s, t \in Threads : Holds(s) /\ Holds(t) => s = t

\* ------------------------------------------------------------------ C1
\* C1: at most one thread is between a successful lock/trylock and its
\* unlock, and the owner field is none or names that thread.
MutexExclusiveOwner ==
    /\ MutualExclusion
    /\ owner = NoThread \/ (owner \in Threads /\ Holds(owner))

\* ------------------------------------------------------------------ C2
\* The step in which thread t executes the compare-and-swap of trylock.
TrylockCasStep(t) == At(t, "t_cas") /\ pc'[t] # "t_cas"

TrylockSucceeds(t) == pc'[t] = "t_own"

\* C2 as stated: trylock succeeds if and only if no thread holds the mutex
\* at the moment of the call.
TrylockIffUnheld ==
    [][\A t \in Threads :
         TrylockCasStep(t) =>
            (TrylockSucceeds(t) <=> \A s \in Threads : ~Holds(s))]_vars

TrylockStep(t) == TrylockAssert(t) \/ TrylockCas(t) \/ TrylockOwn(t)

TrylockNeverBlocks ==
    \A t \in Threads :
       (~aborted /\ pc[t] \in {"t_assert", "t_cas", "t_own"})
          => ENABLED TrylockStep(t)

\* C2 (amended): trylock never blocks; it succeeds if and only if no thread
\* holds the mutex, no thread is inside lock() past its increment and no
\* thread is inside unlock() with a wake unit still to release; a
\* successful trylock records the caller as owner.
TrylockIffCounterFree ==
    /\ []TrylockNeverBlocks
    /\ [][\A t \in Threads :
            /\ TrylockCasStep(t) =>
                 (TrylockSucceeds(t) <=>
                     \A s \in Threads : ~Holds(s) /\ ~Pending(s))
            /\ (At(t, "t_own") /\ pc'[t] # "t_own") =>
                 (owner' = t /\ pc'[t] = "held")]_vars

\* A trylock was refused while no thread holds the mutex and the wake unit
\* released by unlock waits for a blocked locker that has not resumed.
TrylockRefusedInHandoff ==
    \E t, b \in Threads :
       /\ pc[t] = "t_busy"
       /\ pc[b] = "l_wait"
       /\ sema = 1
       /\ count = 1
       /\ \A s \in Threads : ~Holds(s) /\ ~Releasing(s)


\* ============================================================ QemuCond
\* Thread t has incremented cond->waiters and not yet decremented it.
Registered(t) ==
    \/ pc[t] \in {"cw_sema", "cw_dec"}
    \/ pc[t] \in {"u_assert", "u_clear", "u_dec", "u_sema", "u_rel"} /\ retpc[t] = "cw_sema"

RegisteredSet == {t \in Threads : Registered(t)}

\* -------------------------------------------------------- qemu_cond_wait
\* cond->waiters++ is a plain load and a plain store.
WaitLoad(t) ==
    /\ At(t, "cw_rd")
    /\ tmp' = [tmp EXCEPT ![t] = waiters]
    /\ Goto(t, "cw_wr")
    /\ UNCHANGED <<notSyncVars, retpc, aborted, mutexVars, condVars>>

\* the store of cond->waiters++, then qemu_mutex_unlock(cond->mutex)
WaitStore(t) ==
    /\ At(t, "cw_wr")
    /\ waiters' = tmp[t] + 1
    /\ tmp' = [tmp EXCEPT ![t] = 0]
    /\ Call(t, "u_assert", "cw_sema")
    /\ UNCHANGED <<notSyncVars, aborted, mutexVars, target, csema, cevent, snap, woke>>

\* WaitForSingleObject(cond->sema, INFINITE)
WaitSema(t) ==
    /\ At(t, "cw_sema")
    /\ csema > 0
    /\ csema' = csema - 1
    /\ woke' = woke \cup {t}
    /\ Goto(t, "cw_dec")
    /\ UNCHANGED <<notSyncVars, retpc, tmp, aborted, mutexVars, waiters, target, cevent, snap>>

\* a wait that skips its decrement of cond->waiters
WaitDecSkip(t) ==
    /\ At(t, "cw_dec")
    /\ Call(t, "l_assert", "cw_ret")
    /\ UNCHANGED <<notSyncVars, tmp, aborted, mutexVars, condVars>>

\* InterlockedDecrement(&cond->waiters): the new value is the call's result
WaitDec(t) ==
    /\ At(t, "cw_dec")
    /\ waiters' = waiters - 1
    /\ tmp' = [tmp EXCEPT ![t] = waiters']
    /\ Goto(t, "cw_cmp")
    /\ UNCHANGED <<notSyncVars, retpc, aborted, mutexVars, target, csema, cevent, snap, woke>>

\* "... == cond->target": a separate load of cond->target, compared with
\* the result of the decrement; other threads run between the two
WaitCompare(t) ==
    /\ At(t, "cw_cmp")
    /\ tmp' = [tmp EXCEPT ![t] = 0]
    /\ IF tmp[t] = target
         THEN Goto(t, "cw_set") /\ UNCHANGED retpc
         ELSE Call(t, "l_assert", "cw_ret")
    /\ UNCHANGED <<notSyncVars, aborted, mutexVars, condVars>>

\* a wait that reaches the target and does not set the event
WaitSetEventSkip(t) ==
    /\ At(t, "cw_set")
    /\ Call(t, "l_assert", "cw_ret")
    /\ UNCHANGED <<notSyncVars, tmp, aborted, mutexVars, condVars>>

\* SetEvent(cond->continue_event), then qemu_mutex_lock(cond->mutex)
WaitSetEvent(t) ==
    /\ At(t, "cw_set")
    /\ cevent' = TRUE
    /\ Call(t, "l_assert", "cw_ret")
    /\ UNCHANGED <<notSyncVars, tmp, aborted, mutexVars, waiters, target, csema, snap, woke>>

\* ------------------------------------------------------ qemu_cond_signal
SignalAssert(t) ==
    /\ At(t, "cs_assert")
    /\ IF owner = t
         THEN Goto(t, "cs_chk") /\ UNCHANGED aborted
         ELSE Abort(t)
    /\ UNCHANGED <<notSyncVars, retpc, tmp, mutexVars, condVars>>

\* a signal that goes on to release a unit whatever cond->waiters is
SignalCheckAlways(t) ==
    /\ At(t, "cs_chk")
    /\ Goto(t, "cs_ld")
    /\ snap' = RegisteredSet
    /\ woke' = {}
    /\ UNCHANGED <<notSyncVars, retpc, tmp, aborted, mutexVars, waiters, target, csema, cevent>>

\* if (cond->waiters == 0) return;
SignalCheck(t) ==
    /\ At(t, "cs_chk")
    /\ IF waiters = 0
         THEN Goto(t, "cs_ret") /\ UNCHANGED snap
         ELSE Goto(t, "cs_ld") /\ snap' = RegisteredSet
    /\ woke' = {}
    /\ UNCHANGED <<notSyncVars, retpc, tmp, aborted, mutexVars, waiters, target, csema, cevent>>

\* cond->target = cond->waiters - 1: the load of cond->waiters ...
SignalLoad(t) ==
    /\ At(t, "cs_ld")
    /\ tmp' = [tmp EXCEPT ![t] = waiters]
    /\ Goto(t, "cs_tgt")
    /\ UNCHANGED <<notSyncVars, retpc, aborted, mutexVars, condVars>>

\* ... and the store of cond->target; waiters decrement cond->waiters
\* without the mutex, also between the two
SignalTarget(t) ==
    /\ At(t, "cs_tgt")
    /\ target' = tmp[t] - 1
    /\ tmp' = [tmp EXCEPT ![t] = 0]
    /\ Goto(t, "cs_saw")
    /\ UNCHANGED <<notSyncVars, retpc, aborted, mutexVars, waiters, csema, cevent, snap, woke>>

\* a signal that releases its unit and returns without the rendezvous
SignalReleaseNoWait(t) ==
    /\ At(t, "cs_saw")
    /\ csema' = csema + 1
    /\ Goto(t, "cs_ret")
    /\ UNCHANGED <<notSyncVars, retpc, tmp, aborted, mutexVars, waiters, target, cevent, snap, woke>>

\* SignalObjectAndWait: release one unit of cond->sema and start to wait
SignalRelease(t) ==
    /\ At(t, "cs_saw")
    /\ csema' = csema + 1
    /\ Goto(t, "cs_wait")
    /\ UNCHANGED <<notSyncVars, retpc, tmp, aborted, mutexVars, waiters, target, cevent, snap, woke>>

\* a signal whose SignalObjectAndWait returns without the event
SignalWaitSkip(t) ==
    /\ At(t, "cs_wait")
    /\ Goto(t, "cs_ret")
    /\ UNCHANGED <<notSyncVars, retpc, tmp, aborted, mutexVars, condVars>>

\* SignalObjectAndWait returns once continue_event is set (auto-reset)
SignalWait(t) ==
    /\ At(t, "cs_wait")
    /\ cevent
    /\ cevent' = FALSE
    /\ Goto(t, "cs_ret")
    /\ UNCHANGED <<notSyncVars, retpc, tmp, aborted, mutexVars, waiters, target, csema, snap, woke>>

\* --------------------------------------------------- qemu_cond_broadcast
BroadcastAssert(t) ==
    /\ At(t, "cb_assert")
    /\ IF owner = t
         THEN Goto(t, "cb_chk") /\ UNCHANGED aborted
         ELSE Abort(t)
    /\ UNCHANGED <<notSyncVars, retpc, tmp, mutexVars, condVars>>

\* if (cond->waiters == 0) return;
BroadcastCheck(t) ==
    /\ At(t, "cb_chk")
    /\ IF waiters = 0
         THEN Goto(t, "cb_ret") /\ UNCHANGED snap
         ELSE Goto(t, "cb_tgt") /\ snap' = RegisteredSet
    /\ woke' = {}
    /\ UNCHANGED <<notSyncVars, retpc, tmp, aborted, mutexVars, waiters, target, csema, cevent>>

\* a broadcast that sets the target the way signal does
BroadcastTargetAsSignal(t) ==
    /\ At(t, "cb_tgt")
    /\ target' = waiters - 1
    /\ Goto(t, "cb_ld")
    /\ UNCHANGED <<notSyncVars, retpc, tmp, aborted, mutexVars, waiters, csema, cevent, snap, woke>>

\* cond->target = 0
BroadcastTarget(t) ==
    /\ At(t, "cb_tgt")
    /\ target' = 0
    /\ Goto(t, "cb_ld")
    /\ UNCHANGED <<notSyncVars, retpc, tmp, aborted, mutexVars, waiters, csema, cevent, snap, woke>>

\* ReleaseSemaphore(cond->sema, cond->waiters, NULL): cond->waiters is
\* loaded again for the argument ...
BroadcastLoad(t) ==
    /\ At(t, "cb_ld")
    /\ tmp' = [tmp EXCEPT ![t] = waiters]
    /\ Goto(t, "cb_rel")
    /\ UNCHANGED <<notSyncVars, retpc, aborted, mutexVars, condVars>>

\* ... and the call: a release count of 0 makes ReleaseSemaphore fail,
\* if (!result) error_exit(...)
BroadcastRelease(t) ==
    /\ At(t, "cb_rel")
    /\ tmp' = [tmp EXCEPT ![t] = 0]
    /\ IF tmp[t] > 0
         THEN csema' = csema + tmp[t] /\ Goto(t, "cb_wait") /\ UNCHANGED aborted
         ELSE UNCHANGED csema /\ Abort(t)
    /\ UNCHANGED <<notSyncVars, retpc, mutexVars, waiters, target, cevent, snap, woke>>

\* a broadcast that returns without waiting for the event
BroadcastWaitSkip(t) ==
    /\ At(t, "cb_wait")
    /\ Goto(t, "cb_ret")
    /\ UNCHANGED <<notSyncVars, retpc, tmp, aborted, mutexVars, condVars>>

\* WaitForSingleObject(cond->continue_event, INFINITE)
BroadcastWait(t) ==
    /\ At(t, "cb_wait")
    /\ cevent
    /\ cevent' = FALSE
    /\ Goto(t, "cb_ret")
    /\ UNCHANGED <<notSyncVars, retpc, tmp, aborted, mutexVars, waiters, target, csema, snap, woke>>

\* ----------------------------------------------------- qemu_cond_destroy
\* CloseHandle(cond->continue_event) and CloseHandle(cond->sema), called
\* once no thread uses the condition variable: both handles are valid, the
\* calls succeed and the condition variable is gone
CondDestroy(t) ==
    /\ Idle(t)
    /\ \A u \in Threads : pc[u] = "idle"
    /\ destroyed' = TRUE
    /\ UNCHANGED <<otherVars, lockVars, calls, threadVars, mutexVars, condVars>>

CondStep(t) ==
    \/ WaitLoad(t) \/ WaitStore(t) \/ WaitSema(t) \/ WaitDec(t) \/ WaitCompare(t) \/ WaitSetEvent(t)
    \/ SignalAssert(t) \/ SignalCheck(t) \/ SignalLoad(t) \/ SignalTarget(t)
    \/ SignalRelease(t) \/ SignalWait(t)
    \/ BroadcastAssert(t) \/ BroadcastCheck(t) \/ BroadcastTarget(t)
    \/ BroadcastLoad(t) \/ BroadcastRelease(t) \/ BroadcastWait(t)

\* ------------------------------------- callers of the condition variable
\* The holder of the bound mutex calls wait, signal or broadcast.  Every
\* thread waits; one thread, the last, is the one that signals and
\* broadcasts (and waits as well).
Signaller(t) == t = CondThreads

CallWait(t) ==
    /\ At(t, "held")
    /\ calls < MaxCondCalls
    /\ calls' = calls + 1
    /\ Goto(t, "cw_rd")
    /\ UNCHANGED <<otherVars, lockVars, destroyed, retpc, tmp, aborted, mutexVars, condVars>>

CallSignal(t) ==
    /\ Signaller(t)
    /\ At(t, "held")
    /\ calls < MaxCondCalls
    /\ calls' = calls + 1
    /\ Goto(t, "cs_assert")
    /\ UNCHANGED <<otherVars, lockVars, destroyed, retpc, tmp, aborted, mutexVars, condVars>>

CallBroadcast(t) ==
    /\ Signaller(t)
    /\ At(t, "held")
    /\ calls < MaxCondCalls
    /\ calls' = calls + 1
    /\ Goto(t, "cb_assert")
    /\ UNCHANGED <<otherVars, lockVars, destroyed, retpc, tmp, aborted, mutexVars, condVars>>

\* wait, signal or broadcast has returned; the caller goes on (the history
\* of the finished signal/broadcast is dropped; woke restarts empty at the
\* waiters test of the next signal/broadcast)
CondReturned(t) ==
    /\ ~aborted
    /\ pc[t] \in {"cw_ret", "cs_ret", "cb_ret"}
    /\ Goto(t, "held")
    /\ IF pc[t] = "cw_ret"
         THEN UNCHANGED <<snap, woke>>
         ELSE snap' = {} /\ woke' = {}
    /\ UNCHANGED <<notSyncVars, retpc, tmp, aborted, mutexVars, waiters, target, csema, cevent>>

InitCond ==
    /\ ThreadsInit(1..CondThreads)
    /\ MutexInit(1..CondThreads)
    /\ NoLockRecursive
    /\ CondInit
    /\ NoRWMutex
    /\ NoQemuThreads
    /\ NoSemaphore

\* The callers take the bound mutex with qemu_mutex_lock.
NextCond ==
    \E t \in 1..CondThreads :
          \/ CallLock(t) \/ CallUnlock(t)
          \/ CallWait(t) \/ CallSignal(t) \/ CallBroadcast(t) \/ CondReturned(t)
          \/ CondDestroy(t)
          \/ LockAssert(t) \/ LockInc(t) \/ LockSema(t) \/ LockWait(t) \/ LockOwn(t)
          \/ UnlockAssert(t) \/ UnlockClear(t) \/ UnlockDec(t) \/ UnlockSema(t) \/ UnlockRelease(t)
          \/ CondStep(t)

SpecCond == InitCond /\ [][NextCond]_vars

\* --------------------------- the condition variable after a lost rendezvous
\* The state six calls lead to under SpecCond: threads 1 and 2 waited and a
\* broadcast woke them; thread 2 was pre-empted between its decrement and
\* its load of cond->target; threads 1 and 3 waited; the signaller's
\* qemu_cond_signal stored target = 1, thread 2's comparison matched it and
\* set continue_event, and qemu_cond_signal returned with its wake unit
\* still in cond->sema and both waiters blocked; the signaller, still
\* holding the mutex, has then called qemu_cond_broadcast (a seventh call).
BroadcastAfterLeftUnit ==
    /\ pc = [t \in 1..CondThreads |->
               IF t \in {1, 3} THEN "cw_sema"
               ELSE IF t = 2 THEN "l_assert"
               ELSE IF t = CondThreads THEN "cb_assert" ELSE "idle"]
    /\ retpc = [t \in 1..CondThreads |-> IF t = 2 THEN "cw_ret" ELSE "none"]
    /\ tmp = [t \in 1..CondThreads |-> 0]
    /\ aborted = FALSE /\ destroyed = FALSE
    /\ count = 1 /\ owner = CondThreads /\ sema = 0 /\ semaH = FALSE
    /\ semaClosed = FALSE /\ acquired = {CondThreads}
    /\ waiters = 2 /\ target = 1 /\ csema = 1 /\ cevent = FALSE
    /\ snap = {} /\ woke = {}

\* The scenario goes on from there: the call counter starts where
\* MaxCallsAfterRace further calls fit under MaxCondCalls.
InitCondRaced ==
    /\ BroadcastAfterLeftUnit
    /\ calls = MaxCondCalls - MaxCallsAfterRace
    /\ NoLockRecursive
    /\ NoRWMutex
    /\ NoQemuThreads
    /\ NoSemaphore

SpecCondRaced == InitCondRaced /\ [][NextCond]_vars


\* A signal/broadcast that found waiters is between its release of wake
\* units and its wake-up by the rendezvous-channel.
Rendezvous(t) == pc[t] \in {"cs_wait", "cb_wait"}

\* cond->waiters counts the registered waiters
WaitersCountsRegistered == waiters = Cardinality(RegisteredSet)

\* ------------------------------------------------------------------ C3
\* C3: broadcast with n registered waiters wakes exactly those n, each
\* taking one unit; when it returns waiter-count is 0 and the wake-channel
\* is empty, and no thread outside the n ever consumes one of its units.
BroadcastWakesRegistered ==
    \A t \in Threads :
       /\ pc[t] = "cb_wait" => woke \subseteq snap
       /\ (pc[t] = "cb_ret" /\ snap # {}) =>
             /\ woke = snap
             /\ waiters = 0
             /\ csema = 0
             /\ \A w \in snap : ~Registered(w)

\* a broadcast that woke two waiters has returned
BroadcastReturnedAfterTwo ==
    \E t \in Threads : pc[t] = "cb_ret" /\ Cardinality(woke) >= 2

\* ------------------------------------------------------------------ C4
\* C4: signal with n >= 1 registered waiters releases one unit and returns
\* only after one of them has decremented waiter-count; on return
\* waiter-count is n-1 and the wake-channel is empty; the signaler holds
\* the mutex throughout.
SignalWakesOne ==
    \A t \in Threads :
       /\ pc[t] \in {"cs_ld", "cs_tgt", "cs_saw"} =>
             (waiters = Cardinality(snap) /\ waiters >= 1 /\ csema = 0)
       /\ pc[t] = "cs_wait" =>
             /\ owner = t
             /\ csema + Cardinality(woke) = 1
             /\ woke \subseteq snap
             /\ \A s \in Threads : Rendezvous(s) => s = t
       /\ (pc[t] = "cs_ret" /\ snap # {}) =>
             /\ owner = t
             /\ Cardinality(woke) = 1
             /\ woke \subseteq snap
             /\ \A w \in woke : ~Registered(w)
             /\ waiters = Cardinality(snap) - 1
             /\ csema = 0

\* a signal issued with two registered waiters has returned
SignalReturnedWithTwo ==
    \E t \in Threads :
       pc[t] = "cs_ret" /\ Cardinality(snap) = 2 /\ waiters = 1

\* ------------------------------------------------------------------ C5
\* The step in which t evaluates "cond->waiters == 0" in signal/broadcast.
ZeroCheckStep(t) ==
    /\ At(t, "cs_chk") \/ At(t, "cb_chk")
    /\ pc'[t] # pc[t]

\* C5: signal and broadcast with waiter-count 0 return at once and change
\* nothing, and they find no wake unit in the wake-channel, so a wait()
\* called afterwards blocks until a later signal/broadcast releases one.
SignalWithoutWaitersNoop ==
    /\ [](\A t \in Threads :
             (pc[t] \in {"cs_chk", "cb_chk"} /\ waiters = 0) => csema = 0)
    /\ [][\A t \in Threads :
            (ZeroCheckStep(t) /\ waiters = 0) =>
               /\ pc'[t] \in {"cs_ret", "cb_ret"}
               /\ UNCHANGED <<waiters, target, csema, cevent>>]_vars

\* a signal/broadcast that found no waiter has returned, leaving no wake
\* unit, no target and the continue event unsignalled
NoopReturned ==
    \E t \in Threads :
       /\ pc[t] \in {"cs_ret", "cb_ret"}
       /\ snap = {}
       /\ waiters = 0
       /\ target = 0
       /\ csema = 0
       /\ ~cevent

\* ------------------------------------------------------------------ C6
\* C6: wait() returns only with the caller holding the bound mutex and
\* recorded as its owner; the only way to the return leads through the
\* decrement of waiter-count, the comparison with target and the
\* re-acquisition of the mutex.
WaitReturnsHoldingMutex ==
    /\ [](\A t \in Threads :
             pc[t] = "cw_ret" =>
                /\ owner = t
                /\ count >= 1
                /\ \A s \in Threads : Holds(s) => s = t)
    /\ [][\A t \in Threads :
            /\ (pc'[t] = "cw_cmp" /\ pc[t] # "cw_cmp") =>
                  (pc[t] = "cw_dec" /\ waiters' = waiters - 1)
            /\ (pc'[t] = "cw_set" /\ pc[t] # "cw_set") => pc[t] = "cw_cmp"
            /\ (retpc'[t] = "cw_ret" /\ retpc[t] # "cw_ret") =>
                  pc[t] \in {"cw_cmp", "cw_set"}
            /\ (pc'[t] = "cw_ret" /\ pc[t] # "cw_ret") =>
                  (pc[t] = "l_own" /\ retpc[t] = "cw_ret")]_vars

\* wait() has returned in some thread
WaitReturned == \E t \in Threads : pc[t] = "cw_ret"


\* ========================================================= QemuRWMutex
\* Values readerCount can hold before the first rdlock: qemu_rwmutex_init
\* leaves readerCount and writer unwritten.
StaleCounts == (0 - MaxStaleCount)..MaxStaleCount

\* ----------------------------------------------------- qemu_rwmutex_init
RWMutexInit(T) ==
    /\ readerCountLock = NoThread
    /\ writerLock = NoThread
    /\ noReaders = TRUE
    /\ readerCount \in StaleCounts
    /\ writer \in OwnerValues(T)

\* --------------------------------------------------- qemu_rwmutex_rdlock
RdAssert(t) ==
    /\ At(t, "r_assert")
    /\ IF writer # t
         THEN Goto(t, "r_enterW") /\ UNCHANGED aborted
         ELSE Abort(t)
    /\ UNCHANGED <<notRWVars, rwVars>>

\* an rdlock that does not pass through the writerLock
RdEnterWriterLockSkip(t) ==
    /\ At(t, "r_enterW")
    /\ Goto(t, "r_enterC")
    /\ UNCHANGED <<notRWVars, aborted, rwVars>>

\* EnterCriticalSection(&mutex->writerLock)
RdEnterWriterLock(t) ==
    /\ At(t, "r_enterW")
    /\ writerLock = NoThread
    /\ writerLock' = t
    /\ Goto(t, "r_enterC")
    /\ UNCHANGED <<notRWVars, aborted, readerCount, writer, readerCountLock, noReaders>>

\* EnterCriticalSection(&mutex->readerCountLock)
RdEnterCountLock(t) ==
    /\ At(t, "r_enterC")
    /\ readerCountLock = NoThread
    /\ readerCountLock' = t
    /\ Goto(t, "r_inc")
    /\ UNCHANGED <<notRWVars, aborted, readerCount, writer, writerLock, noReaders>>

\* if (++mutex->readerCount == 1)
RdIncrement(t) ==
    /\ At(t, "r_inc")
    /\ readerCount' = readerCount + 1
    /\ IF readerCount' = 1 THEN Goto(t, "r_reset") ELSE Goto(t, "r_leaveC")
    /\ UNCHANGED <<notRWVars, aborted, writer, readerCountLock, writerLock, noReaders>>

\* an rdlock whose first reader leaves the event set
RdResetEventSkip(t) ==
    /\ At(t, "r_reset")
    /\ Goto(t, "r_leaveC")
    /\ UNCHANGED <<notRWVars, aborted, rwVars>>

\* ResetEvent(mutex->noReaders)
RdResetEvent(t) ==
    /\ At(t, "r_reset")
    /\ noReaders' = FALSE
    /\ Goto(t, "r_leaveC")
    /\ UNCHANGED <<notRWVars, aborted, readerCount, writer, readerCountLock, writerLock>>

\* LeaveCriticalSection(&mutex->readerCountLock)
RdLeaveCountLock(t) ==
    /\ At(t, "r_leaveC")
    /\ readerCountLock' = NoThread
    /\ Goto(t, "r_leaveW")
    /\ UNCHANGED <<notRWVars, aborted, readerCount, writer, writerLock, noReaders>>

\* LeaveCriticalSection(&mutex->writerLock); rdlock returns
RdLeaveWriterLock(t) ==
    /\ At(t, "r_leaveW")
    /\ writerLock' = NoThread
    /\ Goto(t, "reading")
    /\ UNCHANGED <<notRWVars, aborted, readerCount, writer, readerCountLock, noReaders>>

\* --------------------------------------------------- qemu_rwmutex_wrlock
\* EnterCriticalSection(&mutex->writerLock)
WrEnterWriterLock(t) ==
    /\ At(t, "w_enterW")
    /\ writerLock = NoThread
    /\ writerLock' = t
    /\ Goto(t, "w_chk")
    /\ UNCHANGED <<notRWVars, aborted, readerCount, writer, readerCountLock, noReaders>>

\* if (mutex->readerCount > 0), read without readerCountLock
WrCheckReaders(t) ==
    /\ At(t, "w_chk")
    /\ IF readerCount > 0 THEN Goto(t, "w_wait") ELSE Goto(t, "w_assert")
    /\ UNCHANGED <<notRWVars, aborted, rwVars>>

\* WaitForSingleObject(mutex->noReaders, INFINITE): manual-reset, stays set
WrWaitNoReaders(t) ==
    /\ At(t, "w_wait")
    /\ noReaders
    /\ Goto(t, "w_assert")
    /\ UNCHANGED <<notRWVars, aborted, rwVars>>

\* assert(mutex->writer == NULL)
WrAssert(t) ==
    /\ At(t, "w_assert")
    /\ IF writer = NoThread
         THEN Goto(t, "w_set") /\ UNCHANGED aborted
         ELSE Abort(t)
    /\ UNCHANGED <<notRWVars, rwVars>>

\* mutex->writer = GetCurrentThreadId(); wrlock returns, writerLock held
WrSetWriter(t) ==
    /\ At(t, "w_set")
    /\ writer' = t
    /\ Goto(t, "writing")
    /\ UNCHANGED <<notRWVars, aborted, readerCount, readerCountLock, writerLock, noReaders>>

\* --------------------------------------------------- qemu_rwmutex_unlock
\* if (mutex->writer != GetCurrentThreadId())
UnCheckWriter(t) ==
    /\ At(t, "x_chk")
    /\ IF writer # t THEN Goto(t, "x_rassert") ELSE Goto(t, "x_wclear")
    /\ UNCHANGED <<notRWVars, aborted, rwVars>>

\* assert (mutex->readerCount > 0)
UnReaderAssert(t) ==
    /\ At(t, "x_rassert")
    /\ IF readerCount > 0
         THEN Goto(t, "x_enterC") /\ UNCHANGED aborted
         ELSE Abort(t)
    /\ UNCHANGED <<notRWVars, rwVars>>

UnEnterCountLock(t) ==
    /\ At(t, "x_enterC")
    /\ readerCountLock = NoThread
    /\ readerCountLock' = t
    /\ Goto(t, "x_dec")
    /\ UNCHANGED <<notRWVars, aborted, readerCount, writer, writerLock, noReaders>>

\* if (--mutex->readerCount == 0)
UnDecrement(t) ==
    /\ At(t, "x_dec")
    /\ readerCount' = readerCount - 1
    /\ IF readerCount' = 0 THEN Goto(t, "x_set") ELSE Goto(t, "x_leaveC")
    /\ UNCHANGED <<notRWVars, aborted, writer, readerCountLock, writerLock, noReaders>>

\* an unlock whose last reader leaves the event unset
UnSetEventSkip(t) ==
    /\ At(t, "x_set")
    /\ Goto(t, "x_leaveC")
    /\ UNCHANGED <<notRWVars, aborted, rwVars>>

\* SetEvent(mutex->noReaders)
UnSetEvent(t) ==
    /\ At(t, "x_set")
    /\ noReaders' = TRUE
    /\ Goto(t, "x_leaveC")
    /\ UNCHANGED <<notRWVars, aborted, readerCount, writer, readerCountLock, writerLock>>

UnLeaveCountLock(t) ==
    /\ At(t, "x_leaveC")
    /\ readerCountLock' = NoThread
    /\ Goto(t, "idle")
    /\ UNCHANGED <<notRWVars, aborted, readerCount, writer, writerLock, noReaders>>

\* mutex->writer = NULL
UnClearWriter(t) ==
    /\ At(t, "x_wclear")
    /\ writer' = NoThread
    /\ Goto(t, "x_wleave")
    /\ UNCHANGED <<notRWVars, aborted, readerCount, readerCountLock, writerLock, noReaders>>

\* LeaveCriticalSection(&mutex->writerLock)
UnLeaveWriterLock(t) ==
    /\ At(t, "x_wleave")
    /\ writerLock' = NoThread
    /\ Goto(t, "idle")
    /\ UNCHANGED <<notRWVars, aborted, readerCount, writer, readerCountLock, noReaders>>

\* ------------------------------------------ callers of the rwlock
\* A thread holding neither side calls rdlock or wrlock; a holder of
\* either side calls unlock.
CallRdlock(t) ==
    /\ Idle(t)
    /\ Goto(t, "r_assert")
    /\ UNCHANGED <<notRWVars, aborted, rwVars>>

CallWrlock(t) ==
    /\ Idle(t)
    /\ Goto(t, "w_enterW")
    /\ UNCHANGED <<notRWVars, aborted, rwVars>>

CallRWUnlock(t) ==
    /\ ~aborted
    /\ pc[t] \in {"reading", "writing"}
    /\ Goto(t, "x_chk")
    /\ UNCHANGED <<notRWVars, aborted, rwVars>>

InitRW ==
    /\ ThreadsInit(1..RWThreads)
    /\ RWMutexInit(1..RWThreads)
    /\ NoMutexNoCond
    /\ NoQemuThreads
    /\ NoSemaphore

NextRW ==
    \E t \in 1..RWThreads :
       \/ CallRdlock(t) \/ CallWrlock(t) \/ CallRWUnlock(t)
       \/ RdAssert(t) \/ RdEnterWriterLock(t) \/ RdEnterCountLock(t)
       \/ RdIncrement(t) \/ RdResetEvent(t) \/ RdLeaveCountLock(t)
       \/ RdLeaveWriterLock(t)
       \/ WrEnterWriterLock(t) \/ WrCheckReaders(t) \/ WrWaitNoReaders(t)
       \/ WrAssert(t) \/ WrSetWriter(t)
       \/ UnCheckWriter(t) \/ UnReaderAssert(t) \/ UnEnterCountLock(t)
       \/ UnDecrement(t) \/ UnSetEvent(t) \/ UnLeaveCountLock(t)
       \/ UnClearWriter(t) \/ UnLeaveWriterLock(t)

SpecRW == InitRW /\ [][NextRW]_vars

\* The same with the lock in zero-filled storage.
InitRWZeroed == InitRW /\ readerCount = 0 /\ writer = NoThread

SpecRWZeroed == InitRWZeroed /\ [][NextRW]_vars

\* Thread t holds the read side: it has registered in rdlock() and has not
\* yet decremented readerCount in unlock().
ReadHolds(t) ==
    \/ pc[t] \in {"r_reset", "r_leaveC", "r_leaveW", "reading",
                  "x_rassert", "x_enterC", "x_dec"}
    \/ pc[t] = "x_chk" /\ writerLock # t

\* Thread t holds the writer-guard as a writer (inside wrlock(), in its
\* critical section or inside its unlock()).
WriterGuardHeld(t) ==
    /\ writerLock = t
    /\ pc[t] \in {"w_chk", "w_wait", "w_assert", "w_set", "writing",
                  "x_chk", "x_wclear", "x_wleave"}

\* Thread t holds the write side: it is past the wait for the readers.
WriteHolds(t) ==
    /\ writerLock = t
    /\ pc[t] \in {"w_assert", "w_set", "writing", "x_chk", "x_wclear"}

\* ------------------------------------------------------------------ C7
\* C7: at most one thread holds the write side and no thread holds the
\* read side while a thread holds the write side.
RWExclusion ==
    /\ \A s, t \in Threads : WriteHolds(s) /\ WriteHolds(t) => s = t
    /\ \A r, w \in Threads : ~(ReadHolds(r) /\ WriteHolds(w))

\* ------------------------------------------------------------------ C8
\* C8: while a wrlock() caller holds the writer-guard (waiting for readers
\* to drain, writing, or unlocking) reader-count never increases.
WriterBlocksNewReaders ==
    [][(\E w \in Threads : WriterGuardHeld(w)) => readerCount' <= readerCount]_vars

\* a writer holds the writer-guard and waits for a reader to drain while
\* another rdlock() caller is held back at the writer-guard
WriterDrainingReaderHeldBack ==
    \E w, r, n \in Threads :
       /\ pc[w] = "w_wait" /\ writerLock = w /\ ~noReaders
       /\ pc[r] = "reading"
       /\ pc[n] = "r_enterW"


\* ========================================================== QemuThread
Descs == 1..MaxThreads
RetVals == 0..MaxRetVal
TidPool == 1..MaxThreads

\* the OS thread of descriptor d exists and has not terminated
Live(d) == tpc[d] \notin {"none", "dead", "abort"}

\* an access to the QemuThreadData of d; remembered if d was freed before
Touch(d) == uaf' = (uaf \/ heap[d] # "live")

LifeGoto(d, l) == tpc' = [tpc EXCEPT ![d] = l]
JoinGoto(d, l) == jpc' = [jpc EXCEPT ![d] = l]

\* the thread object OpenThread(id) finds, 0 if no live thread has this id
OpenThread(id) ==
    IF \E e \in Descs : Live(e) /\ tid[e] = id
      THEN CHOOSE e \in Descs : Live(e) /\ tid[e] = id
      ELSE 0

\* ---------------------------------------------------- qemu_thread_create
\* g_malloc and the stores to the new descriptor; g_malloc does not clear
\* the memory, so ret holds whatever was there.  The creating thread makes
\* its threads one after the other.
CreateAlloc(d) ==
    /\ ~aborted
    /\ cpc[d] = "none"
    /\ IF d = 1 THEN TRUE ELSE cpc[d - 1] = "created"
    /\ \E m \in {"joinable", "detached"}, g \in RetVals :
          /\ mode' = [mode EXCEPT ![d] = m]
          /\ dret' = [dret EXCEPT ![d] = g]
    /\ heap' = [heap EXCEPT ![d] = "live"]
    /\ exited' = [exited EXCEPT ![d] = FALSE]
    /\ cpc' = [cpc EXCEPT ![d] = "c_begin"]
    /\ UNCHANGED <<notLifeVars, aborted, tpc, jpc, dcs, hdata, self, tls, tid,
                   val, jhandle, jret, frees, uaf>>

\* _beginthreadex(..., win32_start_routine, data, 0, &thread->tid)
CreateBegin(d) ==
    /\ ~aborted
    /\ cpc[d] = "c_begin"
    /\ \E id \in TidPool :
          /\ \A e \in Descs : Live(e) => tid[e] # id
          /\ tid' = [tid EXCEPT ![d] = id]
    /\ tpc' = [tpc EXCEPT ![d] = "s_data"]
    /\ cpc' = [cpc EXCEPT ![d] = "c_set"]
    /\ UNCHANGED <<notLifeVars, aborted, jpc, mode, heap, exited, dret, dcs,
                   hdata, self, tls, val, jhandle, jret, frees, uaf>>

\* a create that re-reads data->mode after starting the thread
CreateSetDataFromDescriptor(d) ==
    /\ ~aborted
    /\ cpc[d] = "c_set"
    /\ Touch(d)
    /\ hdata' = [hdata EXCEPT ![d] = (mode[d] # "detached")]
    /\ cpc' = [cpc EXCEPT ![d] = "created"]
    /\ UNCHANGED <<notLifeVars, aborted, tpc, jpc, mode, heap, exited, dret,
                   dcs, self, tls, tid, val, jhandle, jret, frees>>

\* thread->data = (mode == QEMU_THREAD_DETACHED) ? NULL : data, from the
\* mode argument, not from the descriptor
CreateSetData(d) ==
    /\ ~aborted
    /\ cpc[d] = "c_set"
    /\ hdata' = [hdata EXCEPT ![d] = (mode[d] # "detached")]
    /\ cpc' = [cpc EXCEPT ![d] = "created"]
    /\ UNCHANGED <<notLifeVars, aborted, tpc, jpc, mode, heap, exited, dret,
                   dcs, self, tls, tid, val, jhandle, jret, frees, uaf>>

\* --------------------------------------------------- win32_start_routine
\* loads of data->start_routine, data->arg and data->mode
StartRead(d) ==
    /\ ~aborted
    /\ tpc[d] = "s_data"
    /\ Touch(d)
    /\ IF mode[d] = "detached" THEN LifeGoto(d, "s_free") ELSE LifeGoto(d, "s_tls")
    /\ UNCHANGED <<notLifeVars, aborted, cpc, jpc, mode, heap, exited, dret,
                   dcs, hdata, self, tls, tid, val, jhandle, jret, frees>>

\* g_free(data); data = NULL
StartFree(d) ==
    /\ ~aborted
    /\ tpc[d] = "s_free"
    /\ heap' = [heap EXCEPT ![d] = "freed"]
    /\ frees' = [frees EXCEPT ![d] = Append(@, "thread")]
    /\ LifeGoto(d, "s_tls")
    /\ UNCHANGED <<notLifeVars, aborted, cpc, jpc, mode, exited, dret, dcs,
                   hdata, self, tls, tid, val, jhandle, jret, uaf>>

\* TlsSetValue(qemu_thread_tls_index, data), then start_routine runs
StartTls(d) ==
    /\ ~aborted
    /\ tpc[d] = "s_tls"
    /\ tls' = [tls EXCEPT ![d] = (mode[d] # "detached")]
    /\ LifeGoto(d, "run")
    /\ UNCHANGED <<notLifeVars, aborted, cpc, jpc, mode, heap, exited, dret,
                   dcs, hdata, self, tid, val, jhandle, jret, frees, uaf>>

\* -------------------------------------------------- qemu_thread_get_self
\* called by the running thread on a QemuThread of its own
GetSelf(d) ==
    /\ ~aborted
    /\ tpc[d] = "run"
    /\ self[d] = "unset"
    /\ self' = [self EXCEPT ![d] = IF tls[d] THEN "ptr" ELSE "null"]
    /\ UNCHANGED <<notLifeVars, aborted, cpc, tpc, jpc, mode, heap, exited,
                   dret, dcs, hdata, tls, tid, val, jhandle, jret, frees, uaf>>

\* ------------------------------------------------------ qemu_thread_exit
\* start_routine returns v (or calls qemu_thread_exit(v))
EntryReturns(d) ==
    /\ ~aborted
    /\ tpc[d] = "run"
    /\ \E v \in RetVals : val' = [val EXCEPT ![d] = v]
    /\ LifeGoto(d, "e_tls")
    /\ UNCHANGED <<notLifeVars, aborted, cpc, jpc, mode, heap, exited, dret,
                   dcs, hdata, self, tls, tid, jhandle, jret, frees, uaf>>

\* data = TlsGetValue(qemu_thread_tls_index); if (data)
ExitTls(d) ==
    /\ ~aborted
    /\ tpc[d] = "e_tls"
    /\ IF tls[d] THEN LifeGoto(d, "e_assert") ELSE LifeGoto(d, "e_end")
    /\ UNCHANGED <<notLifeVars, aborted, cpc, jpc, mode, heap, exited, dret,
                   dcs, hdata, self, tls, tid, val, jhandle, jret, frees, uaf>>

\* assert(data->mode != QEMU_THREAD_DETACHED)
ExitAssert(d) ==
    /\ ~aborted
    /\ tpc[d] = "e_assert"
    /\ Touch(d)
    /\ IF mode[d] # "detached"
         THEN LifeGoto(d, "e_ret") /\ UNCHANGED aborted
         ELSE LifeGoto(d, "abort") /\ aborted' = TRUE
    /\ UNCHANGED <<notLifeVars, cpc, jpc, mode, heap, exited, dret,
                   dcs, hdata, self, tls, tid, val, jhandle, jret, frees>>

\* data->ret = arg
ExitSetRet(d) ==
    /\ ~aborted
    /\ tpc[d] = "e_ret"
    /\ Touch(d)
    /\ dret' = [dret EXCEPT ![d] = val[d]]
    /\ LifeGoto(d, "e_enter")
    /\ UNCHANGED <<notLifeVars, aborted, cpc, jpc, mode, heap, exited, dcs,
                   hdata, self, tls, tid, val, jhandle, jret, frees>>

\* EnterCriticalSection(&data->cs)
ExitEnter(d) ==
    /\ ~aborted
    /\ tpc[d] = "e_enter"
    /\ dcs[d] = "none"
    /\ Touch(d)
    /\ dcs' = [dcs EXCEPT ![d] = "thread"]
    /\ LifeGoto(d, "e_exited")
    /\ UNCHANGED <<notLifeVars, aborted, cpc, jpc, mode, heap, exited, dret,
                   hdata, self, tls, tid, val, jhandle, jret, frees>>

\* data->exited = true
ExitSetExited(d) ==
    /\ ~aborted
    /\ tpc[d] = "e_exited"
    /\ Touch(d)
    /\ exited' = [exited EXCEPT ![d] = TRUE]
    /\ LifeGoto(d, "e_leave")
    /\ UNCHANGED <<notLifeVars, aborted, cpc, jpc, mode, heap, dret, dcs,
                   hdata, self, tls, tid, val, jhandle, jret, frees>>

\* LeaveCriticalSection(&data->cs)
ExitLeave(d) ==
    /\ ~aborted
    /\ tpc[d] = "e_leave"
    /\ Touch(d)
    /\ dcs' = [dcs EXCEPT ![d] = "none"]
    /\ LifeGoto(d, "e_end")
    /\ UNCHANGED <<notLifeVars, aborted, cpc, jpc, mode, heap, exited, dret,
                   hdata, self, tls, tid, val, jhandle, jret, frees>>

\* _endthreadex(0): the thread terminates, its id can be given out again
ExitEnd(d) ==
    /\ ~aborted
    /\ tpc[d] = "e_end"
    /\ LifeGoto(d, "dead")
    /\ UNCHANGED <<notLifeVars, aborted, cpc, jpc, mode, heap, exited, dret,
                   dcs, hdata, self, tls, tid, val, jhandle, jret, frees, uaf>>

\* ------------------------------------------------------ qemu_thread_join
\* data = thread->data; if (!data) return NULL.  The QemuThread is the
\* creator's handle or the copy the thread made with get_self; a
\* descriptor is joined at most once.
JoinCall(d) ==
    /\ ~aborted
    /\ jpc[d] = "idle"
    /\ \E via \in {"handle", "self"} :
          /\ via = "handle" => cpc[d] = "created"
          /\ via = "self" => self[d] # "unset"
          /\ IF (via = "handle" /\ hdata[d]) \/ (via = "self" /\ self[d] = "ptr")
               THEN JoinGoto(d, "h_assert") /\ UNCHANGED jret
               ELSE /\ JoinGoto(d, "j_done")
                    /\ jret' = [jret EXCEPT ![d] = NullRet]
    /\ UNCHANGED <<notLifeVars, aborted, cpc, tpc, mode, heap, exited, dret,
                   dcs, hdata, self, tls, tid, val, jhandle, frees, uaf>>

\* ------------------------------------------------ qemu_thread_get_handle
\* assert(data->mode != QEMU_THREAD_DETACHED)
GetHandleAssert(d) ==
    /\ ~aborted
    /\ jpc[d] = "h_assert"
    /\ Touch(d)
    /\ IF mode[d] # "detached"
         THEN JoinGoto(d, "h_enter") /\ UNCHANGED aborted
         ELSE JoinGoto(d, "abort") /\ aborted' = TRUE
    /\ UNCHANGED <<notLifeVars, cpc, tpc, mode, heap, exited, dret,
                   dcs, hdata, self, tls, tid, val, jhandle, jret, frees>>

\* EnterCriticalSection(&data->cs)
GetHandleEnter(d) ==
    /\ ~aborted
    /\ jpc[d] = "h_enter"
    /\ dcs[d] = "none"
    /\ Touch(d)
    /\ dcs' = [dcs EXCEPT ![d] = "joiner"]
    /\ JoinGoto(d, "h_exited")
    /\ UNCHANGED <<notLifeVars, aborted, cpc, tpc, mode, heap, exited, dret,
                   hdata, self, tls, tid, val, jhandle, jret, frees>>

\* a get_handle that looks the thread id up whatever data->exited is
GetHandleOpenAlways(d) ==
    /\ ~aborted
    /\ jpc[d] = "h_exited"
    /\ Touch(d)
    /\ jhandle' = [jhandle EXCEPT ![d] = OpenThread(tid[d])]
    /\ JoinGoto(d, "h_leave")
    /\ UNCHANGED <<notLifeVars, aborted, cpc, tpc, mode, heap, exited, dret,
                   dcs, hdata, self, tls, tid, val, jret, frees>>

\* if (!data->exited) handle = OpenThread(..., thread->tid) else NULL
GetHandleOpen(d) ==
    /\ ~aborted
    /\ jpc[d] = "h_exited"
    /\ Touch(d)
    /\ jhandle' = [jhandle EXCEPT ![d] = IF exited[d] THEN 0 ELSE OpenThread(tid[d])]
    /\ JoinGoto(d, "h_leave")
    /\ UNCHANGED <<notLifeVars, aborted, cpc, tpc, mode, heap, exited, dret,
                   dcs, hdata, self, tls, tid, val, jret, frees>>

\* LeaveCriticalSection(&data->cs); return handle; if (handle)
GetHandleLeave(d) ==
    /\ ~aborted
    /\ jpc[d] = "h_leave"
    /\ Touch(d)
    /\ dcs' = [dcs EXCEPT ![d] = "none"]
    /\ IF jhandle[d] # 0 THEN JoinGoto(d, "j_wait") ELSE JoinGoto(d, "j_ret")
    /\ UNCHANGED <<notLifeVars, aborted, cpc, tpc, mode, heap, exited, dret,
                   hdata, self, tls, tid, val, jhandle, jret, frees>>

\* a join that does not wait for the thread handle
JoinWaitSkip(d) ==
    /\ ~aborted
    /\ jpc[d] = "j_wait"
    /\ JoinGoto(d, "j_ret")
    /\ UNCHANGED <<notLifeVars, aborted, cpc, tpc, mode, heap, exited, dret,
                   dcs, hdata, self, tls, tid, val, jhandle, jret, frees, uaf>>

\* WaitForSingleObject(handle, INFINITE); CloseHandle(handle)
JoinWait(d) ==
    /\ ~aborted
    /\ jpc[d] = "j_wait"
    /\ tpc[jhandle[d]] = "dead"
    /\ JoinGoto(d, "j_ret")
    /\ UNCHANGED <<notLifeVars, aborted, cpc, tpc, mode, heap, exited, dret,
                   dcs, hdata, self, tls, tid, val, jhandle, jret, frees, uaf>>

\* ret = data->ret
JoinReadRet(d) ==
    /\ ~aborted
    /\ jpc[d] = "j_ret"
    /\ Touch(d)
    /\ jret' = [jret EXCEPT ![d] = dret[d]]
    /\ JoinGoto(d, "j_assert")
    /\ UNCHANGED <<notLifeVars, aborted, cpc, tpc, mode, heap, exited, dret,
                   dcs, hdata, self, tls, tid, val, jhandle, frees>>

\* assert(data->mode != QEMU_THREAD_DETACHED)
JoinAssert(d) ==
    /\ ~aborted
    /\ jpc[d] = "j_assert"
    /\ Touch(d)
    /\ IF mode[d] # "detached"
         THEN JoinGoto(d, "j_free") /\ UNCHANGED aborted
         ELSE JoinGoto(d, "abort") /\ aborted' = TRUE
    /\ UNCHANGED <<notLifeVars, cpc, tpc, mode, heap, exited, dret,
                   dcs, hdata, self, tls, tid, val, jhandle, jret, frees>>

\* DeleteCriticalSection(&data->cs); g_free(data); return ret
JoinFree(d) ==
    /\ ~aborted
    /\ jpc[d] = "j_free"
    /\ Touch(d)
    /\ heap' = [heap EXCEPT ![d] = "freed"]
    /\ frees' = [frees EXCEPT ![d] = Append(@, "joiner")]
    /\ JoinGoto(d, "j_done")
    /\ UNCHANGED <<notLifeVars, aborted, cpc, tpc, mode, exited, dret,
                   dcs, hdata, self, tls, tid, val, jhandle, jret>>

InitLife ==
    /\ ThreadsInit({})
    /\ NoMutexNoCond
    /\ NoRWMutex
    /\ NoSemaphore
    /\ cpc = [d \in Descs |-> "none"]
    /\ tpc = [d \in Descs |-> "none"]
    /\ jpc = [d \in Descs |-> "idle"]
    /\ mode = [d \in Descs |-> "none"]
    /\ heap = [d \in Descs |-> "none"]
    /\ exited = [d \in Descs |-> FALSE]
    /\ dret = [d \in Descs |-> NullRet]
    /\ dcs = [d \in Descs |-> "none"]
    /\ hdata = [d \in Descs |-> FALSE]
    /\ self = [d \in Descs |-> "unset"]
    /\ tls = [d \in Descs |-> FALSE]
    /\ tid = [d \in Descs |-> 0]
    /\ val = [d \in Descs |-> NullRet]
    /\ jhandle = [d \in Descs |-> 0]
    /\ jret = [d \in Descs |-> NoRet]
    /\ frees = [d \in Descs |-> <<>>]
    /\ uaf = FALSE

NextLife ==
    \E d \in 1..MaxThreads :
       \/ CreateAlloc(d) \/ CreateBegin(d) \/ CreateSetData(d)
       \/ StartRead(d) \/ StartFree(d) \/ StartTls(d)
       \/ GetSelf(d) \/ EntryReturns(d)
       \/ ExitTls(d) \/ ExitAssert(d) \/ ExitSetRet(d) \/ ExitEnter(d)
       \/ ExitSetExited(d) \/ ExitLeave(d) \/ ExitEnd(d)
       \/ JoinCall(d)
       \/ GetHandleAssert(d) \/ GetHandleEnter(d) \/ GetHandleOpen(d)
       \/ GetHandleLeave(d)
       \/ JoinWait(d) \/ JoinReadRet(d) \/ JoinAssert(d) \/ JoinFree(d)

SpecLife == InitLife /\ [][NextLife]_vars


\* the thread of d has stored its return value in the descriptor: it found
\* the descriptor in its TLS slot (detached threads find NULL there and
\* skip the store) and is past "data->ret = arg"
Recorded(d) ==
    /\ tls[d]
    /\ tpc[d] \in {"e_enter", "e_exited", "e_leave", "e_end", "dead"}

\* ------------------------------------------------------------------ C9
\* C9: join on a joinable thread returns the value the entry function
\* returned, whether join found the thread exited or waited for it, and
\* reads the return value only after the thread has recorded it.
JoinReturnsEntryValue ==
    \A d \in Descs :
       /\ jpc[d] = "j_ret" => (Recorded(d) /\ dret[d] = val[d])
       /\ (jpc[d] = "j_done" /\ mode[d] = "joinable") => jret[d] = val[d]

\* two joins have returned a non-null value, one that waited for its
\* thread and one that found it exited
JoinedBothWays ==
    \E d, e \in Descs :
       /\ jpc[d] = "j_done" /\ jpc[e] = "j_done"
       /\ mode[d] = "joinable" /\ mode[e] = "joinable"
       /\ jhandle[d] # 0 /\ jhandle[e] = 0
       /\ jret[d] # NullRet /\ jret[e] # NullRet

\* ----------------------------------------------------------------- C10
\* everything that will ever use descriptor d has finished
Finished(d) ==
    /\ tpc[d] = "dead"
    /\ mode[d] = "joinable" => jpc[d] = "j_done"

\* C10: a descriptor is freed at most once and only by its owner (the
\* running thread if detached, join if joinable), it is freed once the
\* thread has ended and (if joinable) been joined, it is never accessed
\* after it is freed, and join through the handle of a detached thread
\* goes from its call straight to its return (it never waits, never takes
\* the descriptor lock), returns null and frees nothing.
DescriptorFreedOnceByOwner ==
    /\ ~uaf
    /\ \A d \in Descs :
          /\ Len(frees[d]) <= 1
          /\ heap[d] = "freed" <=> Len(frees[d]) = 1
          /\ (frees[d] # <<>> /\ mode[d] = "detached") => frees[d] = <<"thread">>
          /\ (frees[d] # <<>> /\ mode[d] = "joinable") => frees[d] = <<"joiner">>
          /\ Finished(d) => heap[d] = "freed"
          /\ mode[d] = "detached" =>
                /\ jpc[d] \in {"idle", "j_done"}
                /\ jhandle[d] = 0
                /\ jpc[d] = "j_done" => jret[d] = NullRet

\* a detached thread has freed its descriptor and ended, join on its
\* handle has returned, and a later thread reuses its thread id
DetachedCycleDone ==
    \E d, e \in Descs :
       /\ d # e
       /\ mode[d] = "detached" /\ tpc[d] = "dead" /\ jpc[d] = "j_done"
       /\ frees[d] = <<"thread">>
       /\ mode[e] = "detached" /\ tpc[e] = "dead" /\ frees[e] = <<"thread">>
       /\ tid[e] = tid[d]


\* ======================================================= QemuSemaphore
\* Initial counts tried: empty, one unit, and the maximum count.
SemInits == {0, 1, LONG_MAX}

\* -------------------------------------------------------- qemu_sem_init
\* CreateSemaphore(NULL, init, LONG_MAX, NULL)
SemaphoreInit(T) ==
    /\ semInit \in SemInits
    /\ semCount = semInit
    /\ posts = 0
    /\ takes = 0
    /\ waitRc = [t \in T |-> "none"]
    /\ semRet = [t \in T |-> SemSuccess]
    /\ postsAtCall = [t \in T |-> -1]

\* -------------------------------------------------------- qemu_sem_post
\* ReleaseSemaphore(sem->sema, 1, NULL): when the count is at the maximum
\* the call fails and leaves the count alone; the result is not looked at.
SemPost(t) ==
    /\ Idle(t)
    /\ posts < MaxPosts
    /\ semCount' = IF semCount < LONG_MAX THEN semCount + 1 ELSE semCount
    /\ posts' = posts + 1
    /\ UNCHANGED <<notSemVars, pc, aborted, semInit, takes, waitRc, semRet,
                   postsAtCall>>

\* ----------------------------------------------------- qemu_sem_destroy
\* CloseHandle(sem->sema), called once no thread uses the semaphore: the
\* semaphore is gone
SemDestroy(t) ==
    /\ Idle(t)
    /\ \A u \in Threads : pc[u] = "idle"
    /\ destroyed' = TRUE
    /\ UNCHANGED <<retpc, tmp, mutexVars, lockVars, condVars, calls, rwVars,
                   lifeVars, pc, aborted, semVars>>

\* -------------------------------------------------------- qemu_sem_wait
CallSemWait(t) ==
    /\ Idle(t)
    /\ takes < MaxTakes
    /\ Goto(t, "sw_wait")
    /\ postsAtCall' = [postsAtCall EXCEPT
                          ![t] = IF semCount = 0 THEN posts ELSE -1]
    /\ UNCHANGED <<notSemVars, aborted, semCount, semInit, posts, takes,
                   waitRc, semRet>>

\* WaitForSingleObject(sem->sema, INFINITE) returns WAIT_OBJECT_0 once it
\* has taken a unit
SemWait(t) ==
    /\ At(t, "sw_wait")
    /\ semCount > 0
    /\ semCount' = semCount - 1
    /\ takes' = takes + 1
    /\ waitRc' = [waitRc EXCEPT ![t] = "WAIT_OBJECT_0"]
    /\ Goto(t, "sw_ret")
    /\ UNCHANGED <<notSemVars, aborted, semInit, posts, semRet, postsAtCall>>

\* the caller goes on after qemu_sem_wait
SemWaitReturned(t) ==
    /\ At(t, "sw_ret")
    /\ Goto(t, "idle")
    /\ postsAtCall' = [postsAtCall EXCEPT ![t] = -1]
    /\ UNCHANGED <<notSemVars, aborted, semCount, semInit, posts, takes,
                   waitRc, semRet>>

\* --------------------------------------------------- qemu_sem_timedwait
CallSemTimedwait(t) ==
    /\ Idle(t)
    /\ takes < MaxTakes
    /\ Goto(t, "st_wait")
    /\ UNCHANGED <<notSemVars, aborted, semVars>>

\* rc = WaitForSingleObject(sem->sema, ms): a unit was there or arrived
SemTimedwaitTake(t) ==
    /\ At(t, "st_wait")
    /\ semCount > 0
    /\ semCount' = semCount - 1
    /\ takes' = takes + 1
    /\ waitRc' = [waitRc EXCEPT ![t] = "WAIT_OBJECT_0"]
    /\ Goto(t, "st_chk")
    /\ UNCHANGED <<notSemVars, aborted, semInit, posts, semRet, postsAtCall>>

\* rc = WaitForSingleObject(sem->sema, ms): ms elapsed with no unit
SemTimedwaitExpire(t) ==
    /\ At(t, "st_wait")
    /\ semCount = 0
    /\ waitRc' = [waitRc EXCEPT ![t] = "WAIT_TIMEOUT"]
    /\ Goto(t, "st_chk")
    /\ UNCHANGED <<notSemVars, aborted, semCount, semInit, posts, takes,
                   semRet, postsAtCall>>

\* a timedwait that takes every result other than WAIT_OBJECT_0 as fatal
SemTimedwaitCheckFatal(t) ==
    /\ At(t, "st_chk")
    /\ IF waitRc[t] = "WAIT_OBJECT_0"
         THEN /\ semRet' = [semRet EXCEPT ![t] = SemSuccess]
              /\ Goto(t, "st_ret")
              /\ UNCHANGED aborted
         ELSE Abort(t) /\ UNCHANGED semRet
    /\ UNCHANGED <<notSemVars, semCount, semInit, posts, takes, waitRc,
                   postsAtCall>>

\* if (rc == WAIT_OBJECT_0) return 0;
\* if (rc != WAIT_TIMEOUT) error_exit(...); return -1;
SemTimedwaitCheck(t) ==
    /\ At(t, "st_chk")
    /\ IF waitRc[t] = "WAIT_OBJECT_0"
         THEN /\ semRet' = [semRet EXCEPT ![t] = SemSuccess]
              /\ Goto(t, "st_ret")
              /\ UNCHANGED aborted
         ELSE IF waitRc[t] # "WAIT_TIMEOUT"
                THEN Abort(t) /\ UNCHANGED semRet
                ELSE /\ semRet' = [semRet EXCEPT ![t] = SemTimeout]
                     /\ Goto(t, "st_ret")
                     /\ UNCHANGED aborted
    /\ UNCHANGED <<notSemVars, semCount, semInit, posts, takes, waitRc,
                   postsAtCall>>

\* the caller goes on after qemu_sem_timedwait
SemTimedwaitReturned(t) ==
    /\ At(t, "st_ret")
    /\ Goto(t, "idle")
    /\ UNCHANGED <<notSemVars, aborted, semVars>>

InitSem ==
    /\ ThreadsInit(1..SemThreads)
    /\ SemaphoreInit(1..SemThreads)
    /\ NoMutexNoCond
    /\ NoRWMutex
    /\ NoQemuThreads

NextSem ==
    \E t \in 1..SemThreads :
       \/ SemPost(t) \/ SemDestroy(t)
       \/ CallSemWait(t) \/ SemWait(t) \/ SemWaitReturned(t)
       \/ CallSemTimedwait(t) \/ SemTimedwaitTake(t) \/ SemTimedwaitExpire(t)
       \/ SemTimedwaitCheck(t) \/ SemTimedwaitReturned(t)

SpecSem == InitSem /\ [][NextSem]_vars

\* The same for semaphores created with room above the initial count.
InitSemBelowMax == InitSem /\ semInit < LONG_MAX - MaxPosts

SpecSemBelowMax == InitSemBelowMax /\ [][NextSem]_vars

\* ----------------------------------------------------------------- C11
\* C11: the count is init + posts - takes and never negative, a wait()
\* issued on count 0 returns only after a later post(), and no more waits
\* have gone through than there were units.
SemCounting ==
    /\ semCount - semInit = posts - takes
    /\ semCount >= 0
    /\ takes - posts <= semInit
    /\ \A t \in Threads :
          (pc[t] = "sw_ret" /\ postsAtCall[t] >= 0) => posts > postsAtCall[t]

\* ----------------------------------------------------------------- C12
\* The step in which the WaitForSingleObject of t's timedwait returns.
TimedwaitWaitStep(t) == At(t, "st_wait") /\ pc'[t] # pc[t]

\* C12: timedwait returns 0 exactly when its wait consumed one unit and
\* -1 exactly when the timeout expired on an empty semaphore, the count is
\* then unchanged, and no timedwait ends in the fatal error path.
TimedwaitDistinct ==
    /\ [](~aborted)
    /\ [](\A t \in Threads :
             pc[t] = "st_ret" =>
                /\ semRet[t] = SemSuccess <=> waitRc[t] = "WAIT_OBJECT_0"
                /\ semRet[t] = SemTimeout <=> waitRc[t] = "WAIT_TIMEOUT")
    /\ [][\A t \in Threads :
            TimedwaitWaitStep(t) =>
               \/ /\ waitRc'[t] = "WAIT_OBJECT_0"
                  /\ semCount' = semCount - 1
                  /\ takes' = takes + 1
               \/ /\ waitRc'[t] = "WAIT_TIMEOUT"
                  /\ semCount = 0
                  /\ UNCHANGED <<semCount, takes>>]_vars

\* one timedwait has returned 0 and another has returned -1
TimedwaitBothReturns ==
    \E s, t \in Threads :
       /\ pc[s] = "st_ret" /\ semRet[s] = SemSuccess
       /\ pc[t] = "st_ret" /\ semRet[t] = SemTimeout
       /\ semCount = 0


\* ========================================== QemuMutex, contract violations
\* The holder calls lock() again.
CallLockOwned(t) ==
    /\ At(t, "held")
    /\ count < MaxCount
    /\ Call(t, "l_assert", "held")
    /\ UNCHANGED <<notSyncVars, tmp, aborted, mutexVars, condVars>>

\* The holder calls trylock().
CallTrylockOwned(t) ==
    /\ At(t, "held")
    /\ Call(t, "t_assert", "held")
    /\ UNCHANGED <<notSyncVars, tmp, aborted, mutexVars, condVars>>

\* A thread that does not hold the mutex calls unlock().
CallUnlockUnowned(t) ==
    /\ Idle(t)
    /\ Call(t, "u_assert", "idle")
    /\ UNCHANGED <<notSyncVars, tmp, aborted, mutexVars, condVars>>

\* A thread calls lock_recursive(), holding the mutex or not.
CallLockRecursive(t) ==
    /\ ~aborted
    /\ pc[t] \in {"idle", "held"}
    /\ lockDepth < MaxLockDepth
    /\ Call(t, "r_enter", pc[t])
    /\ UNCHANGED <<notSyncVars, tmp, aborted, mutexVars, condVars>>

\* A thread that does not hold the mutex calls destroy().
CallMutexDestroy(t) ==
    /\ Idle(t)
    /\ Goto(t, "d_count")
    /\ UNCHANGED <<notSyncVars, retpc, tmp, aborted, mutexVars, condVars>>

\* qemu_mutex_init leaves mutex->lock unwritten: the storage reads as a
\* free critical section or as one that a thread, one of the callers or
\* another, has entered once.
LockInit(T) ==
    \/ lock = NoThread /\ lockDepth = 0
    \/ lock \in T \cup {OtherTid} /\ lockDepth = 1

\* Every entry point of QemuMutex, called from any position; mutex->lock is
\* whatever the storage held before qemu_mutex_init.
InitMisuse ==
    /\ ThreadsInit(1..MisuseThreads)
    /\ MutexInit(1..MisuseThreads)
    /\ LockInit(1..MisuseThreads)
    /\ CondInit
    /\ NoRWMutex
    /\ NoQemuThreads
    /\ NoSemaphore

NextMisuse ==
    \E t \in 1..MisuseThreads :
       \/ CallLock(t) \/ CallTrylock(t) \/ TrylockBusy(t) \/ CallUnlock(t)
       \/ MutexStep(t)
       \/ CallLockOwned(t) \/ CallTrylockOwned(t) \/ CallUnlockUnowned(t)
       \/ CallLockRecursive(t) \/ LockRecursiveStep(t)
       \/ CallMutexDestroy(t) \/ MutexDestroyStep(t)

SpecMisuse == InitMisuse /\ [][NextMisuse]_vars

\* ----------------------------------------------------------------- C13
\* The step in which t evaluates the assert() of lock/trylock, of unlock.
AcquireAssertStep(t) ==
    /\ At(t, "l_assert") \/ At(t, "t_assert")
    /\ pc'[t] # pc[t]

ReleaseAssertStep(t) == At(t, "u_assert") /\ pc'[t] # pc[t]

\* C13: lock and trylock by the recorded owner, and unlock by a thread
\* other than the recorded owner, fail their assertion with counter and
\* owner untouched; a thread about to change the counter in lock/trylock
\* is not the recorded owner, and nothing changes after the failure.
MutexMisuseFatal ==
    /\ [](\A t \in Threads : pc[t] \in {"l_inc", "t_cas"} => owner # t)
    /\ [][\A t \in Threads :
            /\ (AcquireAssertStep(t) /\ owner = t) =>
                  aborted' /\ UNCHANGED <<count, owner>>
            /\ (ReleaseAssertStep(t) /\ owner # t) =>
                  aborted' /\ UNCHANGED <<count, owner>>]_vars
    /\ [][aborted => UNCHANGED <<count, owner, sema>>]_vars

\* the holder's second lock() has failed its assertion
RelockAborted ==
    \E t \in Threads :
       /\ aborted /\ pc[t] = "abort" /\ retpc[t] = "held"
       /\ owner = t /\ count >= 1


\* ================================================ QemuMutex, wake-channel
\* the threads inside lock() that have incremented but not yet acquired
PendingSet == {t \in Threads : Pending(t)}

\* 1 if a thread holds the mutex, else 0
HeldCount == IF \E t \in Threads : Holds(t) THEN 1 ELSE 0

\* The step in which t executes the InterlockedIncrement of lock(), the
\* InterlockedDecrement of unlock(), the ReleaseSemaphore of unlock().
LockIncStep(t) == At(t, "l_inc") /\ pc'[t] # pc[t]
UnlockDecStep(t) == At(t, "u_dec") /\ pc'[t] # pc[t]
UnlockReleaseStep(t) == At(t, "u_rel") /\ pc'[t] # pc[t]

\* ----------------------------------------------------------------- C14
\* C14: the counter is (1 if held else 0) plus the pending lockers, wake
\* units never outnumber pending lockers, the wake-channel is empty when
\* the counter is 0; an increment from 0 acquires without the wake-channel
\* and any other goes to block on it; an unlock whose decrement leaves a
\* non-zero counter releases exactly one unit, any other releases none.
MutexWakeAccounting ==
    /\ [](/\ count = HeldCount + Cardinality(PendingSet)
          /\ sema <= Cardinality(PendingSet)
          /\ sema >= 0
          /\ count = 0 => sema = 0)
    /\ [][\A t \in Threads :
            /\ LockIncStep(t) =>
                  IF count = 0
                    THEN pc'[t] = "l_own" /\ UNCHANGED <<sema, semaH>>
                    ELSE pc'[t] = "l_sema"
            /\ UnlockDecStep(t) =>
                  /\ UNCHANGED sema
                  /\ IF count' # 0 THEN pc'[t] = "u_sema" ELSE pc'[t] = retpc[t]
            /\ UnlockReleaseStep(t) => sema' = sema + 1]_vars
    /\ [][sema' > sema => \E t \in Threads : UnlockReleaseStep(t)]_vars

\* the holder has left, its wake unit waits for a blocked locker while
\* another locker is pending too
WakeUnitForBlockedLocker ==
    \E s, t \in Threads :
       /\ s # t
       /\ sema = 1 /\ count = 2
       /\ pc[s] = "l_wait" /\ Pending(t)
       /\ \A h \in Threads : ~Holds(h) /\ ~Releasing(h)


\* ================================================= QemuCond, bookkeeping
\* The steps in which t writes cond->waiters or cond->target: the store of
\* waiters++, the InterlockedDecrement, the target assignments.
WaitIncrementStep(t) == At(t, "cw_wr") /\ pc'[t] # pc[t]
WaitDecrementStep(t) == At(t, "cw_dec") /\ pc'[t] # pc[t]
TargetStep(t) == (At(t, "cs_tgt") \/ At(t, "cb_tgt")) /\ pc'[t] # pc[t]

\* ----------------------------------------------------------------- C15
\* C15 as stated: every write of waiter-count and of target is made by a
\* thread that holds the bound mutex at that moment.
CondMutationsByHolder ==
    [][\A t \in Threads :
          (WaitIncrementStep(t) \/ WaitDecrementStep(t) \/ TargetStep(t))
             => Holds(t)]_vars

\* C15, amended: the increment in wait() and the target assignments are
\* made by the thread that holds the bound mutex and is recorded as its
\* owner; the decrement in wait() is made by a thread that does not hold
\* the mutex.
CondWritesUnderHeldMutex ==
    [][\A t \in Threads :
          /\ (WaitIncrementStep(t) \/ TargetStep(t)) =>
                Holds(t) /\ owner = t
          /\ WaitDecrementStep(t) =>
                /\ ~Holds(t)
                /\ owner # t]_vars

\* the waiter woken by a signal has just made its decrement, outside the
\* mutex that the signaler holds
DecrementedOutsideMutex ==
    \E s, t \in Threads :
       /\ pc[t] = "cw_set" /\ waiters = target
       /\ pc[s] = "cs_wait" /\ owner = s

\* ----------------------------------------------------------------- C16
\* a thread is at an access to waiter-count or target made under the mutex
BookkeepingUnderMutex(t) ==
    pc[t] \in {"cw_rd", "cw_wr", "cs_chk", "cs_ld", "cs_tgt",
               "cb_chk", "cb_tgt", "cb_ld"}

\* C16: while a waiter is at its post-wake-up decrement, another thread is
\* inside signal/broadcast, holds the mutex and is blocked on the unset
\* rendezvous-channel, and no thread is at the increment of wait() or at
\* the waiter-count read or target write of signal/broadcast; target does
\* not change while a wake unit or a woken waiter's decrement is pending.
RendezvousSafety ==
    /\ [](\A t \in Threads :
             pc[t] = "cw_dec" =>
                /\ ~cevent
                /\ \E s \in Threads :
                      s # t /\ Rendezvous(s) /\ Holds(s) /\ owner = s
                /\ \A u \in Threads : ~BookkeepingUnderMutex(u))
    /\ [][target' # target =>
             /\ csema = 0
             /\ \A t \in Threads : pc[t] \notin {"cw_dec", "cw_cmp"}]_vars

\* a broadcast is blocked in its rendezvous, one woken waiter is at its
\* decrement and another has made its own and contends for the mutex
DecrementDuringBroadcast ==
    \E s, t, u \in Threads :
       /\ pc[s] = "cb_wait"
       /\ pc[t] = "cw_dec"
       /\ u \in woke /\ Pending(u) /\ retpc[u] = "cw_ret"


\* ============================================ QemuRWMutex, state fields
\* wrlock() has returned to t and t has not yet cleared writer in unlock()
WriterReturned(t) ==
    /\ writerLock = t
    /\ pc[t] \in {"writing", "x_chk", "x_wclear"}

\* t is the first reader, between "++readerCount == 1" and ResetEvent
FirstReaderBeforeReset(t) ==
    /\ pc[t] = "r_reset"
    /\ readerCountLock = t
    /\ writerLock = t

\* ----------------------------------------------------------------- C17
\* C17 as stated: writer-identity is non-none iff a writer holds the lock,
\* and reader-count > 0 implies the no-readers-signal is unset, in every
\* state, the steps inside rdlock() and unlock() included.
RWStateInvariant ==
    /\ writer # NoThread <=> \E t \in Threads : WriterReturned(t)
    /\ readerCount > 0 => ~noReaders

\* What holds of a lock in zero-filled storage (SpecRWZeroed), where
\* qemu_rwmutex_init's unwritten fields happen to read as 0: writer-identity
\* is non-none iff a writer holds the lock and then names it; reader-count
\* > 0 implies the no-readers-signal is unset except while the first reader
\* is between its increment and its reset, holding both guards;
\* reader-count is the number of read holders.
RWStateInvariantOutsideReset ==
    /\ writer # NoThread <=> \E t \in Threads : WriterReturned(t)
    /\ \A t \in Threads : WriterReturned(t) => writer = t
    /\ readerCount = Cardinality({t \in Threads : ReadHolds(t)})
    /\ (readerCount > 0 /\ noReaders) =>
          /\ readerCount = 1
          /\ \E t \in Threads : FirstReaderBeforeReset(t)

\* the first reader has incremented reader-count to 1 and has not yet
\* reset the no-readers-signal
FirstReaderSignalStillSet ==
    \E t \in Threads :
       FirstReaderBeforeReset(t) /\ readerCount = 1 /\ noReaders


\* ============================================== QemuThread, join handle
\* The steps in which the descriptor fields exited and ret are accessed
\* once the thread runs: get_handle's test of exited and lookup of the
\* thread id, exit's store to exited, exit's store to ret, join's load of
\* ret.
JoinLookupStep(d) == ~aborted /\ jpc[d] = "h_exited" /\ jpc'[d] # jpc[d]
ExitedStoreStep(d) == ~aborted /\ tpc[d] = "e_exited" /\ tpc'[d] # tpc[d]
RetStoreStep(d) == ~aborted /\ tpc[d] = "e_ret" /\ tpc'[d] # tpc[d]
RetLoadStep(d) == ~aborted /\ jpc[d] = "j_ret" /\ jpc'[d] # jpc[d]

\* join looks the thread id up under the descriptor lock and only if
\* exited is false, then finds the live target thread itself; it gets no
\* handle, and does not wait, when exited is true
JoinLookupSound ==
    /\ [](\A d \in Descs : jpc[d] = "j_wait" => jhandle[d] = d)
    /\ [][\A d \in Descs :
            JoinLookupStep(d) =>
               /\ dcs[d] = "joiner"
               /\ IF exited[d]
                    THEN jhandle'[d] = 0
                    ELSE Live(d) /\ jhandle'[d] = d]_vars

\* ----------------------------------------------------------------- C18
\* C18 as stated: the lookup is sound, and exited and the return value
\* are accessed only under the descriptor's own lock.
JoinHandleAllUnderLock ==
    /\ JoinLookupSound
    /\ [][\A d \in Descs :
            /\ (ExitedStoreStep(d) \/ RetStoreStep(d)) => dcs[d] = "thread"
            /\ RetLoadStep(d) => dcs[d] = "joiner"]_vars

\* C18, amended: the lookup is sound, exited is set by the exiting thread
\* and tested by join under the descriptor's lock; the return value is
\* stored by the exiting thread before it takes the lock and loaded by
\* join after it left the lock, once the thread has stored it.
JoinHandleExitedUnderLock ==
    /\ JoinLookupSound
    /\ [][\A d \in Descs :
            /\ ExitedStoreStep(d) => dcs[d] = "thread"
            /\ RetStoreStep(d) => dcs[d] # "thread"
            /\ RetLoadStep(d) => dcs[d] = "none" /\ Recorded(d)]_vars

\* join has resolved a handle for a live thread that carries the id of a
\* terminated one, while that thread waits at the descriptor lock to set
\* exited
LookupBeforeExitOnReusedId ==
    \E d, e \in Descs :
       /\ d # e
       /\ jpc[d] = "h_leave" /\ jhandle[d] = d /\ dcs[d] = "joiner"
       /\ tpc[d] = "e_enter"
       /\ tpc[e] = "dead" /\ tid[e] = tid[d]


\* ==================================================== QemuMutex, progress
\* Every thread keeps running (each statement of lock, trylock and unlock
\* is eventually executed when it can be), and every holder eventually
\* calls unlock().
FairMutex ==
    \A t \in 1..MutexThreads :
       WF_vars(MutexStep(t)) /\ WF_vars(CallUnlock(t))

SpecMutexFair == SpecMutex /\ FairMutex

\* thread t is inside lock()
InLock(t) == pc[t] \in {"l_assert", "l_inc", "l_sema", "l_wait", "l_own"}

\* a thread is blocked on the wake-channel with no holder, no wake unit
\* and no unlock() in flight
LostWakeup ==
    /\ \E t \in Threads : pc[t] = "l_wait"
    /\ sema = 0
    /\ \A s \in Threads : ~Holds(s) /\ ~Releasing(s)

\* ----------------------------------------------------------------- C19
\* C19: no reachable state is a lost wake-up, and whenever a thread is
\* inside lock() some thread inside lock() eventually acquires the mutex
\* (or the process has been ended by a failed assertion).
MutexProgress ==
    /\ [](~LostWakeup)
    /\ (\E t \in Threads : InLock(t))
          ~> ((\E t \in Threads : pc[t] = "l_own") \/ aborted)

\* a locker is blocked on the empty wake-channel, the holder has left and
\* its unlock() is about to release the unit
LockerBlockedUnlockInFlight ==
    \E t, h \in Threads :
       /\ pc[t] = "l_wait" /\ sema = 0
       /\ Releasing(h)
       /\ \A s \in Threads : ~Holds(s)


\* ===================================================== QemuCond, progress
\* Every thread keeps running: each statement of the mutex and of the
\* condition variable is eventually executed when it can be.
FairCond ==
    \A t \in 1..CondThreads :
       WF_vars(MutexStep(t)) /\ WF_vars(CondStep(t))

SpecCondFair == SpecCond /\ FairCond

\* t is inside a signal/broadcast that found waiter-count >= 1
SignalInProgress(t) ==
    pc[t] \in {"cs_ld", "cs_tgt", "cs_saw", "cs_wait",
               "cb_tgt", "cb_ld", "cb_rel", "cb_wait"}

\* ----------------------------------------------------------------- C20
\* C20, the rendezvous-channel: it is set only by a waiter whose decrement
\* reached the target, only while it is unset and the caller is blocked on
\* it, once per call, and it is unset whenever no signal/broadcast is in
\* progress.
RendezvousChannelSetOnce ==
    /\ \A t \in Threads :
          pc[t] = "cw_set" =>
             /\ ~cevent
             /\ \E s \in Threads : Rendezvous(s)
             /\ \A u \in Threads : pc[u] = "cw_set" => u = t
    /\ cevent => \E s \in Threads : Rendezvous(s)
    /\ (\A s \in Threads : ~SignalInProgress(s)) => ~cevent

\* C20, termination: every signal/broadcast that found waiters eventually
\* returns (or the process has been ended by a failed assertion), and the
\* rendezvous-channel is used as above.
RendezvousTerminates ==
    /\ \A t \in 1..CondThreads :
          SignalInProgress(t) ~> (pc[t] \in {"cs_ret", "cb_ret"} \/ aborted)
    /\ []RendezvousChannelSetOnce

\* a signal waits in its rendezvous with its wake unit not yet taken, two
\* waiters are registered and neither has taken it
SignalUnitNotYetTaken ==
    \E s, w, u \in Threads :
       /\ w # u
       /\ pc[s] = "cs_wait" /\ csema = 1 /\ target = 1
       /\ pc[w] = "cw_sema" /\ pc[u] = "cw_sema"


\* ================================================== QemuRWMutex, progress
\* the statements of rdlock, wrlock and unlock of thread t
RWStep(t) ==
    \/ RdAssert(t) \/ RdEnterWriterLock(t) \/ RdEnterCountLock(t)
    \/ RdIncrement(t) \/ RdResetEvent(t) \/ RdLeaveCountLock(t)
    \/ RdLeaveWriterLock(t)
    \/ WrEnterWriterLock(t) \/ WrCheckReaders(t) \/ WrWaitNoReaders(t)
    \/ WrAssert(t) \/ WrSetWriter(t)
    \/ UnCheckWriter(t) \/ UnReaderAssert(t) \/ UnEnterCountLock(t)
    \/ UnDecrement(t) \/ UnSetEvent(t) \/ UnLeaveCountLock(t)
    \/ UnClearWriter(t) \/ UnLeaveWriterLock(t)

\* a thread that holds the read side calls unlock()
ReaderCallsUnlock(t) == pc[t] = "reading" /\ CallRWUnlock(t)

\* Every thread keeps running, and every thread that holds the read side
\* eventually calls unlock() (from there it cannot call rdlock() first).
FairRW ==
    \A t \in 1..RWThreads :
       WF_vars(RWStep(t)) /\ WF_vars(ReaderCallsUnlock(t))

SpecRWFair == SpecRW /\ FairRW

\* t has acquired the writer-guard in wrlock() and is not yet the writer
WriterAdmitted(t) ==
    /\ writerLock = t
    /\ pc[t] \in {"w_chk", "w_wait", "w_assert", "w_set"}

\* a writer is blocked on the unset no-readers-signal and nothing is left
\* that will set it: no thread holds the read side or is about to set it
LostNoReadersWakeup ==
    /\ \E w \in Threads : pc[w] = "w_wait"
    /\ ~noReaders
    /\ \A t \in Threads : ~ReadHolds(t) /\ pc[t] # "x_set"

\* ----------------------------------------------------------------- C21
\* C21: a wrlock() caller that has acquired the writer-guard eventually
\* becomes the writer (or the process has been ended by a failed
\* assertion), and no reachable state has a writer blocked on the
\* no-readers-signal with no reader left to set it.
WriterProgress ==
    /\ [](~LostNoReadersWakeup)
    /\ \A t \in 1..RWThreads :
          WriterAdmitted(t) ~> (writer = t \/ aborted)

\* a writer that read reader-count > 0 is blocked on the unset signal
\* while the last reader has decremented reader-count to 0 and is about
\* to set it
WriterWaitsLastReaderLeaving ==
    \E w, r \in Threads :
       /\ pc[w] = "w_wait" /\ writerLock = w
       /\ ~noReaders
       /\ pc[r] = "x_set" /\ readerCount = 0

====
